---- MODULE Spec2Model ----
(***************************************************************************)
(* Verification model of wine-quotekit: the record cleaner, the zone       *)
(* resolver, the record sorter, the validator / normalizer and the         *)
(* document assembler (src/src/lib/wineList.js), the paginated fetch and   *)
(* the attachment publisher (src/src/lib/api/airtable), the generation run *)
(* with its atomic write (generation-handler.js) and the HTTP entry        *)
(* (src/src/lib/api/server/worker.js).                                     *)
(***************************************************************************)
EXTENDS Integers, Sequences, FiniteSets, TLC

VARIABLES
  \* ---- wineDataSorter (wineList.js:254-441) ----
  sortData,        \* the `data` argument: a list of cleaned records
  sortZoneMapping, \* the `zoneMapping` argument (Undefined when not passed)
  sortedData,      \* the array returned by the call
  resortedData,    \* the array returned for the same records supplied in another order
  sortPc,          \* "idle" -> "sorted" -> "resorted"
  \* ---- wineDataValidationAndNormalization (wineList.js:514-780) ----
  valData,         \* the `data` argument: a list of cleaned records
  valZoneMapping,  \* the `zoneMapping` argument
  valIndex,        \* the loop index i, counted from 1
  valPc,           \* "loop", "lookup" (awaiting getEnotecaDataById), "returned", "thrown", "built"
  currentRecord,   \* the normalized entry under construction
  invalidFields,   \* names pushed for the record under construction
  validRecords,
  warningRecords,
  invalidRecords,
  categories,
  validIds,        \* history: the id of the input record behind each entry of validRecords
  lookupsInFlight, \* history: the places in `data` of the records whose producer lookup is awaited
  \* ---- wineDataYamlBuilder (wineList.js:889-979) ----
  winesArray,      \* the sections of the assembled document
  \* ---- uploadRecordWithAttachment (airtableApi.js:924-1396) ----
  pubArgs,         \* the arguments of the call
  pubPc,           \* "called", the awaited step or timer, then "returned" or "rejected"
  sizeBytes,       \* fileBuf.byteLength
  finalFilename,
  recordId,        \* newRecord.id
  verifyRecord,    \* the record re-fetched after the upload (line 1320)
  uploadResponse,  \* what the POST of the file was answered with, its body not yet read
  pubResult,       \* the value the call resolves to
  pubError,        \* the message of the error the call rejects with, in segments
  pubCalls,        \* history: the file read, the remote calls, how each settled, the waits
  \* ---- wineDataCleaner (wineList.js:54-98) ----
  cleanData,       \* the `data` argument: the response of the records request
  cleanPc,         \* "idle", "called", then "returned" or "thrown", "reapplied", "recleaned"
  cleanedRecords,  \* the array returned by the call
  cleanedTwice,    \* the array returned for the returned array passed as `data`
  recleanedRecords, \* the array returned for { records: cleanedRecords }
  \* ---- getZoneMapping (wineList.js:146-207) ----
  zonesResponse,   \* how the awaited fetchDefaultTableRecords settles
  zonePc,          \* "idle", "fetching", then "returned" or "thrown"
  zoneMapping,     \* the object returned: record id -> descriptor
  \* ---- startGeneration (generation-handler.js) ----
  genArgs,         \* the arguments of the run and the environment
  genPc,           \* "idle", "called", the awaited step, then "returned" or "rejected"
  enotecaRecordId,
  genData,         \* `data`, the inventory fetchDefaultTableRecords resolved to
  enotecaData,     \* the object built from the record of the venue
  yamlString,      \* the value generateWineListYamlString resolved to
  genTemp,         \* the temporary file of the write of the run, Undefined if none
  genError,        \* the message of the error thrown, which the run rejects with
  \* ---- generateWineListYamlString (wineList.js:1016-1045) ----
  pipeData,        \* the `data` argument: the response of the records request
  pipeZones,       \* how the request made by getZoneMapping settles
  pipePc,          \* "idle", "called", "zones", "validating", then "returned" or "rejected"
  pipeCleaned,     \* cleanedData
  pipeZoneMapping, \* zoneMapping
  pipeSorted,      \* sortedData
  pipeResult,      \* what the validation resolved to
  pipeWines,       \* the sections wineDataYamlBuilder assembles
  \* ---- fetchDefaultTableRecords (airtableIndex.js:331-401) ----
  fetchParams,  \* the `params` argument
  fetchConfig,  \* authToken, baseId, tableIdOrName: the overrides or the environment
  fetchSource,  \* what the record source answers, by cursor
  fetchPc,  \* "idle", "called", "requesting" (awaiting listRecords), then "returned" or "rejected"
  fetchOffset,  \* offset
  allRecords,  \* allRecords
  pageCount,  \* pageCount
  fetchRequests,  \* history: the params of each listRecords call
  fetchReplies,  \* history: the result of each listRecords call
  fetchResult, \* finalResult
  \* ---- writeFileAtomicSafe (generation-handler.js) ----
  wfArgs,  \* baseDir, relativePath, data, overwrite
  wfPc,  \* "idle", "called", the awaited file system step, then "returned" or "rejected"
  fsTarget,  \* the content of the file at absTarget, Undefined when there is none
  fsTemp,  \* the content of the file at tmpPath, Undefined when there is none
  targetBefore,  \* history: the content of the target when the call was made
  wfResult,  \* the value the call resolves to
  wfError, \* the message of the error the call rejects with
  \* ---- wineListController, wineListWorker (worker.js:139-303) ----
  reqBody,  \* req.body: the parameters of the HTTP request
  workerPc,  \* "idle", "received", "generating" (awaiting startGeneration), then "responded"
  paramError,  \* the parameters the controller found missing or invalid
  generationCall,  \* the object wineListWorker passes to startGeneration
  generationEnoteca,  \* `enoteca` in startGeneration, the venue it looks up and generates for
  httpStatus  \* the status of the response

sortVars == <<sortData, sortZoneMapping, sortedData, resortedData, sortPc>>

valVars == <<valData, valZoneMapping, valIndex, valPc, currentRecord, invalidFields,
             validRecords, warningRecords, invalidRecords, categories, validIds,
             lookupsInFlight, winesArray>>

pubVars == <<pubArgs, pubPc, sizeBytes, finalFilename, recordId, verifyRecord, uploadResponse,
             pubResult, pubError, pubCalls>>

cleanVars == <<cleanData, cleanPc, cleanedRecords, cleanedTwice, recleanedRecords>>

zoneVars == <<zonesResponse, zonePc, zoneMapping>>

genVars == <<genArgs, genPc, enotecaRecordId, genData, enotecaData, yamlString, genTemp,
             genError>>

pipeVars == <<pipeData, pipeZones, pipePc, pipeCleaned, pipeZoneMapping, pipeSorted,
              pipeResult, pipeWines>>

fetchVars == <<fetchParams, fetchConfig, fetchSource, fetchPc, fetchOffset, allRecords, pageCount, fetchRequests, fetchReplies, fetchResult>>

writeVars == <<wfArgs, wfPc, fsTarget, fsTemp, targetBefore, wfResult, wfError>>

workerVars == <<reqBody, workerPc, paramError, generationCall, generationEnoteca, httpStatus>>

vars == <<sortVars, valVars, pubVars, cleanVars, zoneVars, genVars, pipeVars, fetchVars, writeVars, workerVars>>

(***************************************************************************)
(* JavaScript values.  A value is a record tagged by `k`; each kind has    *)
(* its own payload field, so values of different kinds are never equal.    *)
(* An object's own properties are the domain of a TLA+ function, so that   *)
(* a missing property is a name outside the domain.                        *)
(***************************************************************************)
Undefined == [k |-> "undef"]
Null == [k |-> "null"]
Str(s) == [k |-> "str", s |-> s]
\* a number: n + f/100 (f in 0..99); Num(n) is the integer n
Dec(n, f) == [k |-> "num", n |-> n, f |-> f]
Num(n) == Dec(n, 0)
Arr(a) == [k |-> "arr", a |-> a]
Bool(b) == [k |-> "bool", b |-> b]
Obj(p) == [k |-> "obj", p |-> p]

\* obj[key] for a TLA+ function holding the own properties of an object
Prop(props, key) == IF key \in DOMAIN props THEN props[key] ELSE Undefined

\* ToBoolean(v): undefined, null, "", 0, NaN and false are falsy; arrays and
\* objects are truthy
Truthy(v) ==
  CASE v.k = "undef" -> FALSE
    [] v.k = "null" -> FALSE
    [] v.k = "str" -> v.s # ""
    [] v.k = "num" -> v.n # 0 \/ v.f # 0
    [] v.k = "nan" -> FALSE
    [] v.k = "bool" -> v.b
    [] OTHER -> TRUE

(***************************************************************************)
(* Strings.  TLC cannot look inside a string, so the operations that do    *)
(* (trim, Intl collation) are tabulated over the strings the model uses.   *)
(***************************************************************************)
\* String.prototype.trim on the strings of the model
Trim(s) ==
  CASE s = "Rosso " -> "Rosso"
    [] s = " " -> ""
    [] OTHER -> s

\* Collation classes of localeCompare(_, "it", {sensitivity: "base", numeric: true}),
\* in ascending order.  Strings of one class differ only in case or accents
\* (they compare 0); digit runs compare by value ("rec2" < "rec10").
CollationOrder ==
  << {""}, {"12"}, {"Amarone"}, {"Antinori"}, {"Barolo", "barolo"}, {"Bianco"},
     {"Bolgheri"}, {"Carmignano"}, {"Chianti"}, {"Gaja"}, {"Langhe"}, {"Montalcino"},
     {"Piemonte"},
     {"rec1"}, {"rec2"}, {"rec3"}, {"rec4"}, {"rec5"}, {"rec6"}, {"rec10"},
     {"recA1"}, {"recB2", "recb2"}, {"recC3"}, {"recD4"}, {"recE5"},
     {"recP1"}, {"recP2"}, {"recP3"},
     {"recZ1"}, {"recZ2"}, {"recZ3"}, {"recZ4"}, {"recZ5"}, {"recZ6"}, {"recZ9"},
     {"Rosso", "rosso"}, {"Toscana"} >>

CollationStrings == UNION {CollationOrder[r] : r \in 1..Len(CollationOrder)}

CollationRanks ==
  [s \in CollationStrings |-> CHOOSE r \in 1..Len(CollationOrder) : s \in CollationOrder[r]]

CollationRank(s) == CollationRanks[s]

\* a.localeCompare(b, "it", {sensitivity: "base", numeric: true}): negative, 0, positive
localeCompare(a, b) ==
  LET ra == CollationRank(a)
      rb == CollationRank(b)
  IN IF ra < rb THEN -1 ELSE IF ra > rb THEN 1 ELSE 0

\* String(v) for a primitive value
RECURSIVE JoinStrings(_, _)
JoinStrings(strs, sep) ==
  IF Len(strs) = 0 THEN ""
  ELSE IF Len(strs) = 1 THEN strs[1]
  ELSE strs[1] \o sep \o JoinStrings(Tail(strs), sep)

\* the digits after the point of so many hundredths, trailing zero dropped
FractionDigits(f) ==
  IF f % 10 = 0 THEN ToString(f \div 10)
  ELSE IF f < 10 THEN "0" \o ToString(f) ELSE ToString(f)

\* String(v); an array is its elements joined by ",", null and undefined
\* elements being empty
RECURSIVE ToStr(_)
ToStr(v) ==
  CASE v.k = "str" -> v.s
    [] v.k = "num" ->
         IF v.f = 0 THEN ToString(v.n)
         ELSE IF v.n < 0
           THEN "-" \o ToString((-(v.n * 100 + v.f)) \div 100) \o "."
                    \o FractionDigits((-(v.n * 100 + v.f)) % 100)
         ELSE ToString(v.n) \o "." \o FractionDigits(v.f)
    [] v.k = "undef" -> "undefined"
    [] v.k = "null" -> "null"
    [] v.k = "nan" -> "NaN"
    [] v.k = "bool" -> IF v.b THEN "true" ELSE "false"
    [] v.k = "arr" ->
         JoinStrings([p \in 1..Len(v.a) |->
                        IF v.a[p].k \in {"undef", "null"} THEN "" ELSE ToStr(v.a[p])], ",")
    [] OTHER -> "[object Object]"


(***************************************************************************)
(* Record Sorter: wineDataSorter(data, zoneMapping)                        *)
(***************************************************************************)
RECURSIVE normalizeSortValue(_)
normalizeSortValue(v) ==
  CASE v.k = "undef" -> ""
    [] v.k = "null" -> ""
    [] v.k = "arr" -> IF Len(v.a) = 0 THEN "" ELSE normalizeSortValue(v.a[1])
    [] v.k = "obj" -> IF "value" \in DOMAIN v.p THEN normalizeSortValue(v.p["value"]) ELSE ""
    [] OTHER -> Trim(ToStr(v))

\* record?.fields?.[key], normalized
getField(record, key) == normalizeSortValue(Prop(record.fields, key))

getZoneId(record) ==
  LET zoneField == Prop(record.fields, "Zona") IN
  IF ~Truthy(zoneField) THEN Null
  ELSE IF zoneField.k = "arr" /\ Len(zoneField.a) > 0 THEN zoneField.a[1]
  ELSE IF zoneField.k = "str" THEN zoneField
  ELSE Null

\* zoneId ? zoneMapping[zoneId] : null   (a missing key reads as undefined)
ZoneOf(zm, zoneId) ==
  IF ~Truthy(zoneId) THEN Null
  ELSE IF ToStr(zoneId) \in DOMAIN zm THEN Obj(zm[ToStr(zoneId)])
  ELSE Undefined

\* zone?.priority != null
HasPriority(zone) ==
  /\ zone.k = "obj"
  /\ "priority" \in DOMAIN zone.p
  /\ zone.p["priority"].k \notin {"null", "undef"}

\* priority || 999
PriorityOr999(zone) == IF Truthy(zone.p["priority"]) THEN zone.p["priority"] ELSE Num(999)

\* x - y on two numbers
Minus(x, y) ==
  LET hundredths == (x.n * 100 + x.f) - (y.n * 100 + y.f)
  IN Dec(hundredths \div 100, hundredths % 100)

\* v < 0 on a number
IsNegative(v) == v.n < 0

\* the sign of a number, which is what Array.prototype.sort reads of the
\* value the comparator returns
Sign(v) == IF v.n < 0 THEN -1 ELSE IF v = Num(0) THEN 0 ELSE 1

\* a || b
OrElse(a, b) == IF Truthy(a) THEN a ELSE b

\* zone.name || "": the value itself when it is truthy, be it a string or not
ZoneNameOrEmpty(zone) == OrElse(Prop(zone.p, "name"), Str(""))

\* TypeError: aZoneName.localeCompare is not a function.  Only a string has the
\* method; the receiver is the name of the zone of a
NotAFunction == [k |-> "thrown", msg |-> "aZoneName.localeCompare is not a function"]

\* the value is an exception thrown, not a value returned
Threw(v) == v.k = "thrown"

\* aZoneName.localeCompare(bZoneName, "it", {...}): throws when aZoneName is no
\* string; bZoneName is converted with String()
zoneNameCompare(aZoneName, bZoneName) ==
  IF aZoneName.k # "str" THEN NotAFunction
  ELSE Num(localeCompare(aZoneName.s, ToStr(bZoneName)))

tipologiaCompare(a, b) == localeCompare(getField(a, "Tipologia"), getField(b, "Tipologia"))
regioneCompare(a, b) == localeCompare(getField(a, "Regione"), getField(b, "Regione"))
zonaCompare(a, b) == localeCompare(getField(a, "Zona"), getField(b, "Zona"))
produttoreCompare(a, b) == localeCompare(getField(a, "Produttore"), getField(b, "Produttore"))

\* getField(r, "Vino + Annata") || String(r?.id || "")
TieBreakKey(r) ==
  IF getField(r, "Vino + Annata") # "" THEN getField(r, "Vino + Annata")
  ELSE IF Truthy(r.id) THEN ToStr(r.id) ELSE ""

tieBreakCompare(a, b) == localeCompare(TieBreakKey(a), TieBreakKey(b))

\* Mutant: the zone step decides only when both zones have a priority
zonePriorityStepBothOnly(a, b, zm) ==
  LET aZone == ZoneOf(zm, getZoneId(a))
      bZone == ZoneOf(zm, getZoneId(b))
  IN
  IF HasPriority(aZone) /\ HasPriority(bZone) THEN
    LET priorityCompare == Minus(PriorityOr999(aZone), PriorityOr999(bZone))
        nameCompare == zoneNameCompare(ZoneNameOrEmpty(aZone), ZoneNameOrEmpty(bZone))
    IN IF priorityCompare # Num(0) THEN [ret |-> TRUE, v |-> priorityCompare]
       ELSE IF nameCompare # Num(0) THEN [ret |-> TRUE, v |-> nameCompare]
       ELSE [ret |-> FALSE, v |-> Num(0)]
  ELSE [ret |-> FALSE, v |-> Num(0)]

\* The zone step of compare when a zoneMapping object is supplied:
\* [ret |-> TRUE, v |-> n] is `return n` (n a number: the difference of two
\* priorities need not be an integer) or, with v |-> NotAFunction, the throw of
\* the comparison of the names; [ret |-> FALSE] falls through to the
\* alphabetical comparison of the raw "Zona" field.
zonePriorityStep(a, b, zm) ==
  LET aZone == ZoneOf(zm, getZoneId(a))
      bZone == ZoneOf(zm, getZoneId(b))
  IN
  IF HasPriority(aZone) /\ HasPriority(bZone) THEN
    LET priorityCompare == Minus(PriorityOr999(aZone), PriorityOr999(bZone))
        nameCompare == zoneNameCompare(ZoneNameOrEmpty(aZone), ZoneNameOrEmpty(bZone))
    IN IF priorityCompare # Num(0) THEN [ret |-> TRUE, v |-> priorityCompare]
       ELSE IF nameCompare # Num(0) THEN [ret |-> TRUE, v |-> nameCompare]
       ELSE [ret |-> FALSE, v |-> Num(0)]
  ELSE IF HasPriority(aZone) THEN [ret |-> TRUE, v |-> Num(-1)]
  ELSE IF HasPriority(bZone) THEN [ret |-> TRUE, v |-> Num(1)]
  ELSE [ret |-> FALSE, v |-> Num(0)]

\* The whole zone key: priority step (if a mapping is supplied), then raw "Zona"
zoneKeyCompare(a, b, zm) ==
  LET step == IF zm # Undefined THEN zonePriorityStep(a, b, zm)
              ELSE [ret |-> FALSE, v |-> Num(0)]
  IN IF step.ret THEN step.v ELSE Num(zonaCompare(a, b))

\* Mutant: Regione is consulted before Tipologia
compareRegioneFirst(a, b, zm) ==
  LET cT == tipologiaCompare(a, b)
      cR == regioneCompare(a, b)
      cZ == zoneKeyCompare(a, b, zm)
      cP == produttoreCompare(a, b)
  IN IF cR # 0 THEN Num(cR)
     ELSE IF cT # 0 THEN Num(cT)
     ELSE IF cZ # Num(0) THEN cZ
     ELSE IF cP # 0 THEN Num(cP)
     ELSE Num(tieBreakCompare(a, b))

\* the number the comparator returns, or the exception it throws
compare(a, b, zm) ==
  LET cT == tipologiaCompare(a, b)
      cR == regioneCompare(a, b)
      cZ == zoneKeyCompare(a, b, zm)
      cP == produttoreCompare(a, b)
  IN IF cT # 0 THEN Num(cT)
     ELSE IF cR # 0 THEN Num(cR)
     ELSE IF cZ # Num(0) THEN cZ
     ELSE IF cP # 0 THEN Num(cP)
     ELSE Num(tieBreakCompare(a, b))

\* Array.prototype.sort on an array shorter than 64 (V8): the run that starts
\* the array is found, reversed when it descends strictly, and every later
\* element is put in its place by a binary insertion.

\* Mutant: a run of elements that tie is taken for a descending run
DescendingOrTied(order) == ~(Sign(order) > 0)

\* the run that starts the array descends: compare(work[1], work[0]) < 0
IsDescending(order) == IsNegative(order)

RECURSIVE RunEnd(_, _, _, _)
\* the run goes on past the element at idx while the order of that element and
\* the one before it keeps the direction of the run; 0 when compare throws
RunContinues(work, idx, descending, zm, order) ==
  IF Threw(order) THEN 0
  ELSE IF descending = IsNegative(order) THEN RunEnd(work, idx + 1, descending, zm)
  ELSE idx - 1

\* the length of the run that starts the array, the element at idx being
\* compared with the one before it; 0 when compare throws
RunEnd(work, idx, descending, zm) ==
  IF idx > Len(work) THEN Len(work)
  ELSE RunContinues(work, idx, descending, zm, compare(work[idx], work[idx - 1], zm))

\* a descending run is reversed in place
MakeRun(work, descending, runLength) ==
  IF runLength = 0 THEN [threw |-> TRUE, work |-> work, runLength |-> 0]
  ELSE [threw |-> FALSE,
        work |-> IF descending
                   THEN [p \in 1..Len(work) |->
                           IF p <= runLength THEN work[runLength + 1 - p] ELSE work[p]]
                 ELSE work,
        runLength |-> runLength]

\* order is compare(work[1], work[0]) in the indices of the code
RunFrom(work, zm, order) ==
  IF Threw(order) THEN MakeRun(work, FALSE, 0)
  ELSE MakeRun(work, IsDescending(order), RunEnd(work, 3, IsDescending(order), zm))

\* the array after the run that starts it is made ascending, and the length of
\* that run; threw when compare throws
CountAndMakeRun(work, zm) == RunFrom(work, zm, compare(work[2], work[1], zm))

RECURSIVE InsertionPoint(_, _, _, _, _)
\* order < 0 ? right = mid : left = mid + 1
Narrowed(work, pivot, left, mid, right, zm, order) ==
  IF Threw(order) THEN -1
  ELSE IF IsNegative(order) THEN InsertionPoint(work, pivot, left, mid, zm)
  ELSE InsertionPoint(work, pivot, mid + 1, right, zm)

\* order is compare(pivot, work[mid]) in the indices of the code
Probed(work, pivot, left, mid, right, zm) ==
  Narrowed(work, pivot, left, mid, right, zm, compare(pivot, work[mid + 1], zm))

\* the binary search of the place of the pivot among the `right` elements
\* before it, left and right counting from 0; -1 when compare throws
InsertionPoint(work, pivot, left, right, zm) ==
  IF left >= right THEN left
  ELSE Probed(work, pivot, left, left + ((right - left) \div 2), right, zm)

RECURSIVE BinaryInsertionSort(_, _, _)
\* the pivot, the element at `start`, is moved to the place `left`
Inserted(work, start, left, zm) ==
  IF left < 0 THEN [threw |-> TRUE, data |-> <<>>]
  ELSE BinaryInsertionSort(
         SubSeq(work, 1, left) \o <<work[start + 1]>> \o SubSeq(work, left + 1, start)
           \o SubSeq(work, start + 2, Len(work)),
         start + 1, zm)

\* the elements from the one at `start` (counting from 0) on are inserted
\* among the sorted elements before them
BinaryInsertionSort(work, start, zm) ==
  IF start >= Len(work) THEN [threw |-> FALSE, data |-> work]
  ELSE Inserted(work, start, InsertionPoint(work, work[start + 1], 0, start, zm), zm)

\* the rest of the array is inserted into the run that starts it
RunExtended(run, zm) ==
  IF run.threw THEN [threw |-> TRUE, data |-> <<>>]
  ELSE BinaryInsertionSort(run.work, run.runLength, zm)

\* if (!Array.isArray(data) || data.length === 0) return [];
\* return [...data].sort(compare): the sorted copy is returned as `data`, and
\* `threw` tells that compare threw and the call returned nothing
wineDataSorter(d, zm) ==
  IF Len(d) < 2 THEN [threw |-> FALSE, data |-> d]
  ELSE RunExtended(CountAndMakeRun(d, zm), zm)

(***************************************************************************)
(* Inputs of the sorter                                                    *)
(***************************************************************************)
MaxSortRecords == 3

RecIds == <<"rec1", "rec2", "rec3", "rec4", "rec5", "rec6">>

\* The zones table as getZoneMapping returns it: id -> descriptor
ZoneTable ==
  ("recZ1" :> [id |-> Str("recZ1"), name |-> Str("Chianti"), region |-> Str("Toscana"),
               country |-> Null, priority |-> Num(2)])
  @@ ("recZ2" :> [id |-> Str("recZ2"), name |-> Str("Bolgheri"), region |-> Str("Toscana"),
                  country |-> Null, priority |-> Num(1)])
  @@ ("recZ3" :> [id |-> Str("recZ3"), name |-> Str("Langhe"), region |-> Str("Piemonte"),
                  country |-> Null, priority |-> Null])

\* the ids of the records given to the sorter: two of them differ in case only
SortIds == <<"recA1", "recB2", "recb2", "recC3", "recD4", "recE5">>

\* the zones table given to the sorter: the name of recZ2 comes from a field
\* that holds a list
SortZoneTable == [ZoneTable EXCEPT !["recZ2"].name = Arr(<<Str("Bolgheri")>>)]

SortKeys == {"Tipologia", "Regione", "Zona", "Produttore", "Vino + Annata"}

BaseSortFields ==
  ("Tipologia" :> Str("Bianco")) @@ ("Regione" :> Str("Toscana"))
  @@ ("Zona" :> Arr(<<Str("recZ1")>>)) @@ ("Produttore" :> Arr(<<Str("recP1")>>))
  @@ ("Vino + Annata" :> Str("Barolo"))

\* Other values a key takes; Undefined stands for a field the record lacks
SortAlternatives ==
  { <<"Tipologia", Str("Rosso")>>, <<"Regione", Str("Piemonte")>>,
    <<"Zona", Arr(<<Str("recZ2")>>)>>, <<"Produttore", Arr(<<Str("recP2")>>)>>,
    <<"Vino + Annata", Str("Amarone")>>, <<"Vino + Annata", Undefined>> }

\* fields with the keys of `alts` replaced (or removed, for Undefined)
WithAlternatives(fields, alts) ==
  LET removed == {x[1] : x \in {y \in alts : y[2] = Undefined}}
      valueOf(key) == IF \E x \in alts : x[1] = key
                      THEN (CHOOSE x \in alts : x[1] = key)[2]
                      ELSE fields[key]
  IN [key \in (DOMAIN fields) \ removed |-> valueOf(key)]

\* The field maps of the sorter's inputs: the base record with at most two keys changed
SortFieldSets ==
  { WithAlternatives(BaseSortFields, alts) :
      alts \in { s \in SUBSET SortAlternatives :
                   /\ Cardinality(s) <= 2
                   /\ \A x, y \in s : x[1] = y[1] => x = y } }

\* Other orders in which a list is supplied: reversed, and rotated by one
Reorderings(d) ==
  { [i \in 1..Len(d) |-> d[Len(d) + 1 - i]],
    [i \in 1..Len(d) |-> d[(i % Len(d)) + 1]] }

\* The input with field maps fs.  Record ids are distinct; they are dealt in
\* descending order, so that the order of the ids and the order of the input
\* differ; the second and the third id collate equal.
SortInput(fs) ==
  [i \in DOMAIN fs |-> [id |-> Str(SortIds[Len(fs) + 1 - i]), fields |-> fs[i]]]

(***************************************************************************)
(* Validator / Normalizer: wineDataValidationAndNormalization              *)
(***************************************************************************)
\* obj[key] = val on a function holding an object's own properties
Put(props, key, val) ==
  [x \in (DOMAIN props) \cup {key} |-> IF x = key THEN val ELSE props[x]]

IsObject(v) == v.k \in {"arr", "obj"}

\* item of an array field: an object with a truthy `value` yields that value
extractItem(item) ==
  IF item.k = "obj" /\ Truthy(Prop(item.p, "value")) THEN item.p["value"] ELSE item

extractValue(field) ==
  IF ~Truthy(field) THEN Null
  ELSE IF field.k = "str" THEN field
  ELSE IF field.k = "arr"
    THEN Str(JoinStrings([p \in 1..Len(field.a) |->
                            LET x == extractItem(field.a[p])
                            IN IF x.k \in {"undef", "null"} THEN "" ELSE ToStr(x)], ", "))
  ELSE IF field.k = "obj" /\ Prop(field.p, "value") # Undefined THEN field.p["value"]
  ELSE field

\* throw new Error({ msg: "Zone ID not found", ... })
ZoneIdNotFound == [k |-> "thrown", msg |-> "Zone ID not found"]

\* Mutant: the name of the entry without the fallback to the id
getZoneNameWithoutFallback(zoneId, zm) ==
  IF ~Truthy(zoneId) THEN ZoneIdNotFound
  ELSE IF zm = Undefined THEN zoneId
  ELSE IF ToStr(zoneId) \in DOMAIN zm THEN zm[ToStr(zoneId)].name
  ELSE Undefined

\* a falsy zoneId throws; without a mapping the zoneId is returned; otherwise
\* zoneMapping[zoneId]?.name || zoneId
getZoneName(zoneId, zm) ==
  IF ~Truthy(zoneId) THEN ZoneIdNotFound
  ELSE IF zm = Undefined THEN zoneId
  ELSE IF ToStr(zoneId) \in DOMAIN zm /\ Truthy(zm[ToStr(zoneId)].name)
    THEN zm[ToStr(zoneId)].name
  ELSE zoneId

\* The characters of the price strings of the model
CharsOf(s) ==
  CASE s = "12,50 €" -> <<"1", "2", ",", "5", "0", " ", "€">>
    [] s = "1234.5" -> <<"1", "2", "3", "4", ".", "5">>
    [] s = "abc" -> <<"a", "b", "c">>
    [] s = "8,999" -> <<"8", ",", "9", "9", "9">>
    [] s = "12" -> <<"1", "2">>
    [] s = "1,2,3" -> <<"1", ",", "2", ",", "3">>
    [] s = "" -> <<>>

Digits == {"0", "1", "2", "3", "4", "5", "6", "7", "8", "9"}

DigitValue(c) ==
  CASE c = "0" -> 0 [] c = "1" -> 1 [] c = "2" -> 2 [] c = "3" -> 3 [] c = "4" -> 4
    [] c = "5" -> 5 [] c = "6" -> 6 [] c = "7" -> 7 [] c = "8" -> 8 [] c = "9" -> 9

\* Mutant: every comma is replaced, as by replace(/,/g, ".")
ReplaceEveryComma(cs) == [p \in 1..Len(cs) |-> IF cs[p] = "," THEN "." ELSE cs[p]]

\* rawPrice.replace(",", "."): the first comma only
ReplaceFirstComma(cs) ==
  LET commas == {p \in 1..Len(cs) : cs[p] = ","}
      first == CHOOSE p \in commas : \A q \in commas : p <= q
  IN IF commas = {} THEN cs ELSE [cs EXCEPT ![first] = "."]

\* .replace(/[^\d.]/g, "")
RECURSIVE KeepDigitsAndDots(_)
KeepDigitsAndDots(cs) ==
  IF Len(cs) = 0 THEN <<>>
  ELSE IF Head(cs) \in Digits \cup {"."}
    THEN <<Head(cs)>> \o KeepDigitsAndDots(Tail(cs))
  ELSE KeepDigitsAndDots(Tail(cs))

\* the longest prefix of digits
RECURSIVE DigitPrefix(_)
DigitPrefix(cs) ==
  IF Len(cs) = 0 \/ Head(cs) \notin Digits THEN <<>>
  ELSE <<Head(cs)>> \o DigitPrefix(Tail(cs))

RECURSIVE DigitsValue(_, _)
DigitsValue(ds, acc) ==
  IF Len(ds) = 0 THEN acc ELSE DigitsValue(Tail(ds), acc * 10 + DigitValue(Head(ds)))

NaN == [k |-> "nan"]

\* parseFloat of a string of digits and dots, then toFixed(2): the integer
\* digits, one dot and the digits after it are read, what follows is ignored;
\* the value is rounded to hundredths on its third decimal digit (no price
\* of the model has a third decimal of 5, where the binary value decides)
parseFloatToFixed2(cs) ==
  LET ip == DigitPrefix(cs)
      rest == SubSeq(cs, Len(ip) + 1, Len(cs))
      fp == IF Len(rest) > 0 /\ Head(rest) = "." THEN DigitPrefix(Tail(rest)) ELSE <<>>
      d(p) == IF p <= Len(fp) THEN DigitValue(fp[p]) ELSE 0
      hundredths == DigitsValue(ip, 0) * 100 + d(1) * 10 + d(2) + (IF d(3) >= 5 THEN 1 ELSE 0)
  IN IF Len(ip) = 0 /\ Len(fp) = 0 THEN NaN
     ELSE Dec(hundredths \div 100, hundredths % 100)

\* parseFloat(...) then parseFloat(floatPrice.toFixed(2)) of a truthy rawPrice:
\* a string, or a number of at most two decimals, which toFixed(2) leaves as
\* it is; the records of the model hold a price of no other kind
parsePrice(rawPrice) ==
  IF rawPrice.k = "str"
    THEN parseFloatToFixed2(KeepDigitsAndDots(ReplaceFirstComma(CharsOf(rawPrice.s))))
  ELSE IF rawPrice.k = "num" THEN rawPrice
  ELSE NaN

\* name - REQUIRED (wineList.js:605-613)
nameStep(record) ==
  IF ~Truthy(Prop(record.fields, "Vino + Annata"))
    THEN [cur |-> <<>>, inv |-> <<"Vino + Annata">>]
  ELSE [cur |-> Put(<<>>, "name", record.fields["Vino + Annata"]), inv |-> <<>>]

\* Mutant: a rejected lookup leaves no trace on the record
producerStepDroppingFailure(st, outcome) ==
  IF outcome.ok
    THEN [cur |-> Put(st.cur, "producer", Prop(outcome.record.fields, "Nome")), inv |-> st.inv]
  ELSE st

\* the try/catch around the awaited producer lookup (wineList.js:620-634)
producerStep(st, outcome) ==
  IF outcome.ok
    THEN [cur |-> Put(st.cur, "producer", Prop(outcome.record.fields, "Nome")), inv |-> st.inv]
  ELSE [cur |-> st.cur, inv |-> Append(st.inv, "Produttore")]

\* an OPTIONAL field: a warning when its extracted value is falsy
optionalStep(st, record, key, out) ==
  LET v == extractValue(Prop(record.fields, key))
  IN IF ~Truthy(v) THEN [st EXCEPT !.warn = Append(@, key)]
     ELSE [st EXCEPT !.cur = Put(@, out, v)]

\* Mutant: a missing required field is not reported
requiredStepSilent(st, record, key, out) ==
  IF ~Truthy(Prop(record.fields, key)) THEN st
  ELSE [st EXCEPT !.cur = Put(@, out, record.fields[key])]

\* a REQUIRED field copied as it is (category, region)
requiredStep(st, record, key, out) ==
  IF ~Truthy(Prop(record.fields, key)) THEN [st EXCEPT !.inv = Append(@, key)]
  ELSE [st EXCEPT !.cur = Put(@, out, record.fields[key])]

zoneStep(st, record, zm) ==
  IF ~Truthy(Prop(record.fields, "Zona")) THEN [st EXCEPT !.inv = Append(@, "Zona")]
  ELSE [st EXCEPT !.cur = Put(@, "zone", getZoneName(record.fields["Zona"], zm))]

priceStep(st, record) ==
  IF ~Truthy(Prop(record.fields, "Prezzo In Carta Testo"))
    THEN [st EXCEPT !.inv = Append(@, "Prezzo In Carta Testo")]
  ELSE LET floatPrice == parsePrice(record.fields["Prezzo In Carta Testo"])
       IN IF floatPrice = NaN
            THEN [st EXCEPT !.inv = Append(@, "price_eur"), !.cur = Put(@, "price_eur", Null)]
          ELSE [st EXCEPT !.cur = Put(@, "price_eur", floatPrice)]

\* The rest of one loop iteration, from the grapes field to the region
\* (wineList.js:637-733); st holds currentRecord and invalidFields so far
restOfIteration(st0, record, zm) ==
  LET s0 == [cur |-> st0.cur, inv |-> st0.inv, warn |-> <<>>]
      s1 == optionalStep(s0, record, "Lista Vitigni AI", "grapes")
      s2 == optionalStep(s1, record, "Luogo di Produzione", "production_location")
      s3 == zoneStep(s2, record, zm)
      s4 == optionalStep(s3, record, "Affinamento AI", "aging")
      s5 == priceStep(s4, record)
      s6 == optionalStep(s5, record, "Alcolicità AI", "abv")
      s7 == requiredStep(s6, record, "Tipologia", "category")
  IN requiredStep(s7, record, "Regione", "region")

\* The loop body throws out of the iteration: the one throw that no inner
\* try/catch encloses is that of getZoneName
loopThrows(st) == Prop(st.cur, "zone") = ZoneIdNotFound

\* Mutant: every truthy category is collected only when the record is valid
collectCategoryOfValid(cats, st) ==
  IF /\ Truthy(Prop(st.cur, "category"))
     /\ st.cur["category"].k = "str"
     /\ \A p \in 1..Len(cats) : cats[p] # st.cur["category"]
     /\ st.inv = <<>> /\ st.warn = <<>>
    THEN Append(cats, st.cur["category"])
  ELSE cats

\* categories.push(currentRecord.category) when it is a non-empty string not
\* yet included (wineList.js:735-742)
collectCategory(cats, st) ==
  IF /\ Truthy(Prop(st.cur, "category"))
     /\ st.cur["category"].k = "str"
     /\ \A p \in 1..Len(cats) : cats[p] # st.cur["category"]
    THEN Append(cats, st.cur["category"])
  ELSE cats

\* Mutant: a record with warnings only is still pushed to validRecords
bucketOfWarningsValid(st) ==
  IF Len(st.inv) > 0 THEN "invalid" ELSE "valid"

\* Mutant: a record with warnings only is pushed to no list
bucketOfSkippingWarnings(st) ==
  IF Len(st.inv) > 0 THEN "invalid"
  ELSE IF Len(st.warn) > 0 THEN "none"
  ELSE "valid"

\* the if / else if / else that files the record (wineList.js:744-756)
bucketOf(st) ==
  IF Len(st.inv) > 0 THEN "invalid"
  ELSE IF Len(st.warn) > 0 THEN "warning"
  ELSE "valid"

(***************************************************************************)
(* Document Assembler: wineDataYamlBuilder(validRecords)                   *)
(***************************************************************************)
\* Map.get(key) finds an entry whose key is the same value; an array or an
\* object is the same value only as the same object, and every record brings
\* its own objects
SameMapKey(stored, key) == ~IsObject(key) /\ ~IsObject(stored) /\ stored = key

\* Mutant: any key finds the first entry of a Map that has entries
MapIndexAnyEntry(entries, key) == IF Len(entries) = 0 THEN 0 ELSE 1

\* index of the entry of a Map (a list of [key, value] in insertion order), or 0
MapIndex(entries, key) ==
  LET hits == {p \in 1..Len(entries) : SameMapKey(entries[p].key, key)}
  IN IF hits = {} THEN 0 ELSE CHOOSE p \in hits : TRUE

\* getOrCreate(map, key, factory): the entries of the map after the call, the
\* value made by the factory being stored under the key when none was found
getOrCreate(entries, key, fresh) ==
  IF MapIndex(entries, key) = 0 THEN Append(entries, [key |-> key, value |-> fresh])
  ELSE entries

\* the place, in the entries after the call, of the value getOrCreate returns
getOrCreateIndex(entries, key) ==
  IF MapIndex(entries, key) = 0 THEN Len(entries) + 1 ELSE MapIndex(entries, key)

\* const { category, region, zone, ...itemData } = record
itemDataOf(record) ==
  [x \in (DOMAIN record) \ {"category", "region", "zone"} |-> record[x]]

\* one turn of the grouping loop (wineList.js:933-945)
groupRecord(grouped, record) ==
  LET category == Prop(record, "category")
      region == Prop(record, "region")
      zone == Prop(record, "zone")
      categories1 == getOrCreate(grouped, category, <<>>)
      c == getOrCreateIndex(grouped, category)
      regions1 == getOrCreate(categories1[c].value, region, <<>>)
      r == getOrCreateIndex(categories1[c].value, region)
      zones1 == getOrCreate(regions1[r].value, zone, <<>>)
      z == getOrCreateIndex(regions1[r].value, zone)
      zoneItems == [zones1 EXCEPT ![z].value = Append(@, itemDataOf(record))]
  IN [categories1 EXCEPT ![c].value = [regions1 EXCEPT ![r].value = zoneItems]]

RECURSIVE groupAll(_, _, _)
groupAll(grouped, records, p) ==
  IF p > Len(records) THEN grouped
  ELSE groupAll(groupRecord(grouped, records[p]), records, p + 1)

RECURSIVE Flatten(_)
Flatten(seqs) == IF Len(seqs) = 0 THEN <<>> ELSE Head(seqs) \o Flatten(Tail(seqs))

\* the shaping loops (wineList.js:950-963): one section per zone entry, in the
\* insertion order of the three levels of maps
shapeSections(grouped) ==
  Flatten([c \in 1..Len(grouped) |->
    Flatten([r \in 1..Len(grouped[c].value) |->
      [z \in 1..Len(grouped[c].value[r].value) |->
         [category |-> grouped[c].key,
          region |-> grouped[c].value[r].key,
          zone |-> grouped[c].value[r].value[z].key,
          items |-> grouped[c].value[r].value[z].value]]])])

\* a mapping as yaml.dump writes it: a key that holds undefined is left out
withoutUndefined(props) ==
  [x \in {y \in DOMAIN props : props[y] # Undefined} |-> props[x]]

\* yaml.dump({ wines: winesArray }, yamlOptions) (wineList.js:965-976), as the
\* `wines` of the document the string denotes: the sections and the items in
\* the order of the array, each without its keys that hold undefined
yamlDump(wines) ==
  [i \in 1..Len(wines) |->
     LET sec == wines[i]
         written == {x \in {"category", "region", "zone"} : sec[x] # Undefined}
     IN [x \in written \cup {"items"} |->
           IF x = "items"
             THEN [p \in 1..Len(sec.items) |-> withoutUndefined(sec.items[p])]
           ELSE sec[x]]]

\* the `wines` of the document returned for the valid records
wineDataYamlBuilder(records) == yamlDump(shapeSections(groupAll(<<>>, records, 1)))

(***************************************************************************)
(* Remote Publisher: uploadRecordWithAttachment                            *)
(* An error message is the list of the segments of its template literal,   *)
(* so that a value interpolated in the message is one of its segments.     *)
(***************************************************************************)
\* v === undefined || v === null || v === ""
IsBlank(v) == v = Undefined \/ v = Null \/ v = Str("")

RequiredMessage(name) == <<name, " is required for uploadRecordWithAttachment">>

\* The parameter checks, in their order (airtableApi.js:936-1003): the message
\* of the error thrown, or no segment when every parameter passes
validateParameters(args) ==
  IF IsBlank(args.token) THEN RequiredMessage("token")
  ELSE IF IsBlank(args.baseId) THEN RequiredMessage("baseId")
  ELSE IF IsBlank(args.tableIdOrName) THEN RequiredMessage("tableIdOrName")
  ELSE IF args.fields = Undefined \/ args.fields = Null \/ ~IsObject(args.fields)
    THEN RequiredMessage("fields")
  ELSE IF IsBlank(args.attachmentFieldIdOrName) THEN RequiredMessage("attachmentFieldIdOrName")
  ELSE IF IsBlank(args.filePath) THEN RequiredMessage("filePath")
  ELSE <<>>

\* filePath.startsWith("http://") || filePath.startsWith("https://")
isUrl(filePath) == filePath.s \in {"https://cdn.example/out/carta.pdf", "http://cdn.example/"}

\* path.basename of a file path, or of the pathname of a URL
basename(filePath) ==
  CASE filePath.s = "/tmp/out/carta.pdf" -> Str("carta.pdf")
    [] filePath.s = "https://cdn.example/out/carta.pdf" -> Str("carta.pdf")
    [] filePath.s = "http://cdn.example/" -> Str("")

\* finalFilename (airtableApi.js:1032, 1040)
finalFilenameOf(args) ==
  IF Truthy(args.filename) THEN args.filename
  ELSE IF isUrl(args.filePath)
    THEN IF Truthy(basename(args.filePath)) THEN basename(args.filePath) ELSE Str("attachment")
  ELSE basename(args.filePath)

MAX == 5 * 1024 * 1024

\* Mutant: the ceiling is one byte higher
tooLargeOffByOne(size) == size > MAX + 1

\* sizeBytes > MAX
tooLarge(size) == size > MAX

tooLargeMessage(size) ==
  <<"File too large for uploadAttachment endpoint: ", ToString(size), " bytes. Max is ",
    ToString(MAX), " bytes (5 MB).">>

\* { ...fields } with the attachment field deleted
fieldsWithoutAttachment(args) ==
  Obj([x \in (DOMAIN args.fields.p) \ {args.attachmentFieldIdOrName.s} |-> args.fields.p[x]])

\* the message of the error thrown when createRecord rejects (lines 1097-1110)
createErrorMessage(error, args) ==
  <<"Error creating record for uploadRecordWithAttachment: ", error.message>>
    \o (IF error.status = 403
          THEN <<"Possible causes: ... table ", args.tableIdOrName.s, " ... base ",
                 args.baseId.s>>
        ELSE <<>>)

\* the message thrown when the record just created cannot be fetched
cannotProceedMessage(id, error) ==
  <<"Cannot proceed with attachment upload: Record ", ToStr(id),
    " does not exist or cannot be accessed. Error: ", error.message>>

\* Mutant: a failed fetch of the record just created is let through
verifyErrorIgnored(id, out) == <<>>

\* the message of what is thrown when the fetch of the record just created
\* settles (lines 1142-1204), no segment when nothing is thrown: the fetch was
\* rejected, or it resolved to null and `verifyRecord.fields` is read
verifyError(id, out) ==
  IF ~out.ok THEN cannotProceedMessage(id, out)
  ELSE IF out.record = Null THEN <<"Cannot read properties of null (reading 'fields')">>
  ELSE <<>>

\* the message thrown on a response to the upload that is not ok (1281-1294)
uploadFailedMessage(response, args, id) ==
  <<"Airtable uploadAttachment failed: ", ToString(response.status), " ", response.body>>
    \o (IF response.status = 404
          THEN <<"field ", args.attachmentFieldIdOrName.s>>
        ELSE <<>>)

\* verifyRecord.fields?.[attachmentFieldIdOrName]
attachmentFieldOf(record, name) ==
  IF ~Truthy(Prop(record.p, "fields")) THEN Undefined
  ELSE Prop(record.p["fields"].p, name.s)

\* Mutant: any list, an empty one too, counts as an attachment
hasAttachmentAnyList(attachmentField) == attachmentField.k = "arr"

\* Array.isArray(attachmentField) && attachmentField.length > 0
hasAttachment(attachmentField) ==
  attachmentField.k = "arr" /\ Len(attachmentField.a) > 0

\* typeof v
typeOf(v) ==
  CASE v.k = "str" -> "string"
    [] v.k = "num" -> "number"
    [] v.k = "nan" -> "number"
    [] v.k = "bool" -> "boolean"
    [] v.k = "undef" -> "undefined"
    [] OTHER -> "object"

fieldStatus(attachmentField, name) ==
  IF attachmentField = Undefined
    THEN <<"Field \"", name.s, "\" is empty (Airtable doesn't return empty fields in API responses)">>
  ELSE IF attachmentField.k = "arr" /\ Len(attachmentField.a) = 0
    THEN <<"Field \"", name.s, "\" exists but is empty">>
  ELSE <<"Field \"", name.s, "\" has unexpected type: ", typeOf(attachmentField)>>

\* errorMsg of the verification failure (line 1338)
verificationFailedMessage(filename, name, attachmentField) ==
  <<"Attachment verification failed: The file \"", ToStr(filename), "\" was not found in field \"",
    name.s, "\" after uploadAttachment. ">> \o fieldStatus(attachmentField, name)

\* the catch around the upload and the verification (lines 1370-1395):
\* `Error updating record with attachment: ${error.message || "Unknown error"}`
enhancedErrorMessage(message) ==
  <<"Error updating record with attachment: ">>
    \o (IF message = <<>> THEN <<"Unknown error">> ELSE message)

(***************************************************************************)
(* The records handed to the validator                                     *)
(***************************************************************************)
MaxValRecords == 2

\* The producers table read by getEnotecaDataById: recP1 has its name filled
\* in, recP2 has no name (an empty field is left out of the fields of a
\* record), a request for any other id is rejected
ProducerTable ==
  ("recP1" :> [id |-> Str("recP1"), fields |-> ("Nome" :> Str("Antinori"))]) @@
  ("recP2" :> [id |-> Str("recP2"), fields |-> <<>>])

\* await getEnotecaDataById(record.fields["Produttore"])
getEnotecaDataById(enotecaId) ==
  IF ToStr(enotecaId) \in DOMAIN ProducerTable
    THEN [ok |-> TRUE, record |-> ProducerTable[ToStr(enotecaId)]]
  ELSE [ok |-> FALSE]

\* The zones table handed to the validator: recZ4 is a zone without a name
ValZoneTable ==
  ZoneTable @@ ("recZ4" :> [id |-> Str("recZ4"), name |-> Null, region |-> Str("Toscana"),
                            country |-> Null, priority |-> Null])

AiField(state, value) == Obj(("state" :> Str(state)) @@ ("value" :> value))

\* a record with every field filled in
BaseValFields ==
  ("Vino + Annata" :> Str("Barolo")) @@
  ("Produttore" :> Arr(<<Str("recP1")>>)) @@
  ("Lista Vitigni AI" :> AiField("generated", Str("Nebbiolo"))) @@
  ("Luogo di Produzione" :> Arr(<<Str("Alba"), Str("Asti")>>)) @@
  ("Zona" :> Arr(<<Str("recZ1")>>)) @@
  ("Affinamento AI" :> Str("Botte")) @@
  ("Prezzo In Carta Testo" :> Str("12,50 €")) @@
  ("Alcolicità AI" :> AiField("generated", Str("14%"))) @@
  ("Tipologia" :> Str("Rosso")) @@
  ("Regione" :> Str("Toscana"))

Absent == [k |-> "absent"]

WithField(fields, key, val) ==
  IF val = Absent THEN [x \in (DOMAIN fields) \ {key} |-> fields[x]]
  ELSE Put(fields, key, val)

\* the other shapes one field takes: left out, empty, of another kind or value
ValAlternatives ==
  { <<"Vino + Annata", Absent>>, <<"Vino + Annata", Str("")>>,
    <<"Produttore", Absent>>, <<"Produttore", Arr(<<Str("recP2")>>)>>,
    <<"Produttore", Arr(<<Str("recP3")>>)>>,
    <<"Lista Vitigni AI", Absent>>, <<"Lista Vitigni AI", AiField("error", Null)>>,
    <<"Luogo di Produzione", Absent>>, <<"Luogo di Produzione", Arr(<<>>)>>,
    <<"Zona", Absent>>, <<"Zona", Arr(<<Str("recZ2")>>)>>, <<"Zona", Arr(<<Str("recZ9")>>)>>,
    <<"Zona", Arr(<<Str("recZ4")>>)>>,
    <<"Affinamento AI", Absent>>,
    <<"Prezzo In Carta Testo", Absent>>, <<"Prezzo In Carta Testo", Str("abc")>>,
    <<"Prezzo In Carta Testo", Str("1234.5")>>, <<"Prezzo In Carta Testo", Str("8,999")>>,
    <<"Prezzo In Carta Testo", Num(12)>>, <<"Prezzo In Carta Testo", Str("1,2,3")>>,
    <<"Alcolicità AI", Absent>>, <<"Alcolicità AI", AiField("generated", Str(""))>>,
    <<"Tipologia", Absent>>, <<"Tipologia", Str("Bianco")>>,
    <<"Tipologia", Arr(<<Str("Rosso")>>)>>,
    <<"Regione", Absent>>, <<"Regione", Str("")>>, <<"Regione", Str("Piemonte")>> }

\* two fields changed at once: two required, a required and an optional one
ValDoubles ==
  { WithField(WithField(BaseValFields, "Vino + Annata", Absent), "Prezzo In Carta Testo", Absent),
    WithField(WithField(BaseValFields, "Zona", Absent), "Affinamento AI", Absent),
    WithField(WithField(BaseValFields, "Tipologia", Str("Bianco")), "Lista Vitigni AI", Absent),
    WithField(WithField(BaseValFields, "Tipologia", Str("Bianco")), "Regione", Absent) }

ValFieldSets ==
  {BaseValFields} \cup {WithField(BaseValFields, alt[1], alt[2]) : alt \in ValAlternatives}
    \cup ValDoubles

ValInput(fs) == [p \in 1..Len(fs) |-> [id |-> Str(RecIds[p]), fields |-> fs[p]]]

(***************************************************************************)
(* wineDataCleaner (wineList.js:54-98)                                     *)
(***************************************************************************)
\* list of fields to keep in datas after cleaning
KEEP_FIELDS ==
  <<"Vino + Annata", "Carta dei Vini", "Vino (from Wine Catalog)", "Lista Vitigni AI",
    "Produttore", "Alcolicità AI", "Affinamento AI", "Regione", "Zona",
    "Luogo di Produzione", "Tipologia", "Priorità Zona", "Prezzo In Carta Testo">>

KeepFieldNames == {KEEP_FIELDS[p] : p \in 1..Len(KEEP_FIELDS)}

\* v[key] for a value that is not null or undefined: own properties exist on
\* objects only (no key used here is an index or the length of an array)
Member(v, key) == IF v.k = "obj" THEN Prop(v.p, key) ELSE Undefined

\* v?.[key]
OptionalMember(v, key) == IF v.k \in {"undef", "null"} THEN Undefined ELSE Member(v, key)

\* TypeError: Cannot read properties of null (reading 'id')
CannotReadId == [k |-> "thrown", msg |-> "Cannot read properties of null or undefined (reading 'id')"]

\* record?.fields && typeof record.fields === "object" ? record.fields : {}
fieldsOf(record) ==
  LET f == OptionalMember(record, "fields")
  IN IF Truthy(f) /\ IsObject(f) THEN f ELSE Obj(<<>>)

\* Mutant: every own key of the fields is copied
cleanedFieldsKeepingAll(fields) == IF fields.k = "obj" THEN fields.p ELSE <<>>

\* the keys of KEEP_FIELDS that are own properties of fields, with their values
cleanedFieldsOf(fields) ==
  IF fields.k = "obj"
    THEN [key \in KeepFieldNames \cap DOMAIN fields.p |-> fields.p[key]]
  ELSE <<>>

\* Mutant: the cleaned fields are returned under the name cleanedFields
cleanRecordShorthand(record) ==
  IF record.k \in {"undef", "null"} THEN CannotReadId
  ELSE Obj(("id" :> Member(record, "id")) @@
           ("createdTime" :> Member(record, "createdTime")) @@
           ("cleanedFields" :> Obj(cleanedFieldsOf(fieldsOf(record)))))

\* the callback of records.map: record.id is read without a guard
cleanRecord(record) ==
  IF record.k \in {"undef", "null"} THEN CannotReadId
  ELSE Obj(("id" :> Member(record, "id")) @@
           ("createdTime" :> Member(record, "createdTime")) @@
           ("fields" :> Obj(cleanedFieldsOf(fieldsOf(record)))))

\* Array.isArray(data?.records) ? data.records : []
recordsOf(data) ==
  LET r == OptionalMember(data, "records")
  IN IF r.k = "arr" THEN r.a ELSE <<>>

\* The array returned, or the error thrown by the first entry that throws
wineDataCleaner(data) ==
  LET records == recordsOf(data)
      mapped == [p \in 1..Len(records) |-> cleanRecord(records[p])]
  IN IF \E p \in 1..Len(mapped) : mapped[p] = CannotReadId THEN CannotReadId
     ELSE Arr(mapped)

(***************************************************************************)
(* getZoneMapping (wineList.js:146-207)                                    *)
(***************************************************************************)
\* a ?? b
Coalesce(a, b) == IF a.k \in {"undef", "null"} THEN b ELSE a

\* Mutant: the descriptor without the final ?? null
zoneDescriptorWithoutNull(rec) ==
  LET fields == fieldsOf(rec)
  IN [id |-> OptionalMember(rec, "id"),
      name |-> Coalesce(Member(fields, "Nome Zona"),
                 Coalesce(Member(fields, "Zona"), Member(fields, "Nome"))),
      region |-> Member(fields, "Regione"),
      country |-> Member(fields, "Nazione"),
      priority |-> Coalesce(Member(fields, "Priorità Zone"), Member(fields, "Priorità Zona"))]

\* { id, name, region, country, priority } of one record (lines 172-194)
zoneDescriptor(rec) ==
  LET fields == fieldsOf(rec)
  IN [id |-> OptionalMember(rec, "id"),
      name |-> Coalesce(Member(fields, "Nome Zona"),
                 Coalesce(Member(fields, "Zona"), Coalesce(Member(fields, "Nome"), Null))),
      region |-> Coalesce(Member(fields, "Regione"), Null),
      country |-> Coalesce(Member(fields, "Nazione"), Null),
      priority |-> Coalesce(Member(fields, "Priorità Zone"),
                     Coalesce(Member(fields, "Priorità Zona"), Null))]

\* one iteration of the loop over the records: a record whose id is falsy is
\* skipped, otherwise zoneMapping[id] = { ... }
zoneMappingWith(zm, rec) ==
  LET id == OptionalMember(rec, "id")
  IN IF ~Truthy(id) THEN zm
     ELSE Put(zm, ToStr(id), zoneDescriptor(rec))

RECURSIVE zoneMappingFrom(_, _, _)
\* the loop from the record at p on
zoneMappingFrom(records, p, zm) ==
  IF p > Len(records) THEN zm
  ELSE zoneMappingFrom(records, p + 1, zoneMappingWith(zm, records[p]))

\* the object returned for the response of the zones table
getZoneMapping(zonesData) == zoneMappingFrom(recordsOf(zonesData), 1, <<>>)

(***************************************************************************)
(* startGeneration (generation-handler.js) and loadWineListToAirtable      *)
(* (airtableIndex.js:717-860)                                              *)
(***************************************************************************)
\* rawEnotecaData.fields["Nome"].toLowerCase().replace(/ /g, "-")
enotecaIdOf(name) ==
  CASE name = "Porgi l'Altra Pancia" -> "porgi-l'altra-pancia"
    [] name = "Vinoteca Due Mari" -> "vinoteca-due-mari"

\* value === undefined || value === null || value === ""
IsMissing(v) == v.k \in {"undef", "null"} \/ v = Str("")

\* typeof data === "string" || data instanceof Uint8Array || Buffer.isBuffer(data)
isWritable(data) == data.k = "str"

\* the calendar day before
dayBefore(dateString) ==
  CASE dateString = "2025-12-28" -> "2025-12-27"
    [] dateString = "2026-01-01" -> "2025-12-31"
    [] dateString = "2026-01-15" -> "2026-01-14"

\* the zone has a negative offset from UTC
westOfUTC(timeZone) == timeZone \in {"America/New_York", "America/Los_Angeles"}

\* the calendar day dateObj.getDate(), getMonth() and getFullYear() read, in
\* the zone of the process, from new Date(dateString), which is midnight UTC
\* of that day: west of UTC it is the evening of the day before
localDay(dateString, timeZone) ==
  IF westOfUTC(timeZone) THEN dayBefore(dateString) ELSE dateString

\* `${day}-${month}-${year}` of the date the run passes, read with the local
\* getters
dateDDMMYYYY(dateString, timeZone) ==
  LET day == localDay(dateString, timeZone)
  IN CASE day = "2025-12-27" -> "27-12-2025"
       [] day = "2025-12-28" -> "28-12-2025"
       [] day = "2025-12-31" -> "31-12-2025"
       [] day = "2026-01-01" -> "01-01-2026"
       [] day = "2026-01-14" -> "14-01-2026"
       [] day = "2026-01-15" -> "15-01-2026"

\* data.toISOString() of new Date(dateString)
toISOString(dateString) == dateString \o "T00:00:00.000Z"

\* loadWineListToAirtable: the parameters are checked, the fields are built
\* and uploadRecordWithAttachment is called with filePath: pdfPath; timeZone
\* is the zone of the process, which the local getters of the date read
loadWineListToAirtable(token, baseId, tableIdOrName, enoteca_id, data, attachmentFieldIdOrName, pdfPath, timeZone) ==
  IF \/ IsMissing(token) \/ IsMissing(baseId) \/ IsMissing(tableIdOrName)
     \/ IsMissing(enoteca_id) \/ IsMissing(data) \/ IsMissing(attachmentFieldIdOrName)
     \/ pdfPath \in {Undefined, Null, Str("")}
    THEN [ok |-> FALSE]
  ELSE [ok |-> TRUE,
        call |-> [token |-> token, baseId |-> baseId, tableIdOrName |-> tableIdOrName,
                  fields |-> Obj(("Carta dei Vini" :> Str("Carta dei Vini " \o dateDDMMYYYY(data.s, timeZone))) @@
                                 ("Enoteca" :> Arr(<<enoteca_id>>)) @@
                                 ("Data" :> Str(toISOString(data.s)))),
                  attachmentFieldIdOrName |-> attachmentFieldIdOrName,
                  filePath |-> pdfPath,
                  filename |-> Undefined]]

(***************************************************************************)
(* generateWineListYamlString (wineList.js:1016-1045): the cleaner, the     *)
(* zone mapping, the sorter, the validator and the assembler in sequence    *)
(***************************************************************************)
\* a cleaned record as the sorter and the validator read it: its id and the
\* own properties of its fields
recordOf(cleaned) == [id |-> Member(cleaned, "id"), fields |-> fieldsOf(cleaned).p]

\* one iteration of the validation loop, the producer lookup included
validateRecord(record, zm) ==
  LET st0 == nameStep(record)
      st1 == IF ~Truthy(Prop(record.fields, "Produttore"))
               THEN [st0 EXCEPT !.inv = Append(@, "Produttore")]
             ELSE producerStep(st0, getEnotecaDataById(record.fields["Produttore"]))
  IN restOfIteration(st1, record, zm)

RECURSIVE validateFrom(_, _, _, _)
\* the loop from the record at p on, the records being awaited one by one
validateFrom(acc, records, p, zm) ==
  IF p > Len(records) \/ acc.thrown THEN acc
  ELSE LET st == validateRecord(records[p], zm)
           bucket == bucketOf(st)
       IN IF loopThrows(st) THEN [acc EXCEPT !.thrown = TRUE]
          ELSE validateFrom(
                 [validRecords |-> IF bucket = "valid" THEN Append(acc.validRecords, st.cur)
                                   ELSE acc.validRecords,
                  validIds |-> IF bucket = "valid" THEN Append(acc.validIds, records[p].id)
                               ELSE acc.validIds,
                  warningRecords |-> IF bucket = "warning"
                                       THEN Append(acc.warningRecords,
                                                   [id |-> records[p].id, warningFields |-> st.warn])
                                     ELSE acc.warningRecords,
                  invalidRecords |-> IF bucket = "invalid"
                                       THEN Append(acc.invalidRecords,
                                                   [id |-> records[p].id, invalidFields |-> st.inv])
                                     ELSE acc.invalidRecords,
                  categories |-> collectCategory(acc.categories, st),
                  thrown |-> FALSE],
                 records, p + 1, zm)

\* what the call resolves to (validIds is the history of the ids behind
\* validRecords), or thrown
wineDataValidationAndNormalization(data, zm) ==
  validateFrom([validRecords |-> <<>>, validIds |-> <<>>, warningRecords |-> <<>>,
                invalidRecords |-> <<>>, categories |-> <<>>, thrown |-> FALSE],
               data, 1, zm)

(***************************************************************************)
(* Specification of the sorter                                             *)
(***************************************************************************)
SortIdle ==
  /\ sortData = <<>>
  /\ sortZoneMapping = Undefined
  /\ sortedData = <<>>
  /\ resortedData = <<>>
  /\ sortPc = "idle"

ValIdle ==
  /\ valData = <<>>
  /\ valZoneMapping = Undefined
  /\ valIndex = 1
  /\ valPc = "idle"
  /\ currentRecord = <<>>
  /\ invalidFields = <<>>
  /\ validRecords = <<>>
  /\ warningRecords = <<>>
  /\ invalidRecords = <<>>
  /\ categories = <<>>
  /\ validIds = <<>>
  /\ lookupsInFlight = {}
  /\ winesArray = <<>>

PubIdle ==
  /\ pubArgs = <<>>
  /\ pubPc = "idle"
  /\ sizeBytes = 0
  /\ finalFilename = Undefined
  /\ recordId = Undefined
  /\ verifyRecord = Undefined
  /\ uploadResponse = Undefined
  /\ pubResult = Undefined
  /\ pubError = <<>>
  /\ pubCalls = <<>>

CleanIdle ==
  /\ cleanData = Undefined
  /\ cleanPc = "idle"
  /\ cleanedRecords = <<>>
  /\ cleanedTwice = <<>>
  /\ recleanedRecords = <<>>

ZoneIdle ==
  /\ zonesResponse = Undefined
  /\ zonePc = "idle"
  /\ zoneMapping = <<>>

GenIdle ==
  /\ genArgs = <<>>
  /\ genPc = "idle"
  /\ enotecaRecordId = Null
  /\ genData = Undefined
  /\ enotecaData = Undefined
  /\ yamlString = Undefined
  /\ genTemp = Undefined
  /\ genError = <<>>

PipeIdle ==
  /\ pipeData = Undefined
  /\ pipeZones = Undefined
  /\ pipePc = "idle"
  /\ pipeCleaned = <<>>
  /\ pipeZoneMapping = <<>>
  /\ pipeSorted = <<>>
  /\ pipeResult = Undefined
  /\ pipeWines = <<>>

FetchIdle ==
  /\ fetchParams = <<>>
  /\ fetchConfig = <<>>
  /\ fetchSource = <<>>
  /\ fetchPc = "idle"
  /\ fetchOffset = Null
  /\ allRecords = <<>>
  /\ pageCount = 0
  /\ fetchRequests = <<>>
  /\ fetchReplies = <<>>
  /\ fetchResult = Undefined

WriteIdle ==
  /\ wfArgs = <<>>
  /\ wfPc = "idle"
  /\ fsTarget = Undefined
  /\ fsTemp = Undefined
  /\ targetBefore = Undefined
  /\ wfResult = Undefined
  /\ wfError = <<>>

WorkerIdle ==
  /\ reqBody = <<>>
  /\ workerPc = "idle"
  /\ paramError = {}
  /\ generationCall = Undefined
  /\ generationEnoteca = Undefined
  /\ httpStatus = 0

InitSort ==
  /\ \E n \in 1..MaxSortRecords :
       \E fs \in [1..n -> SortFieldSets] : sortData = SortInput(fs)
  /\ sortZoneMapping \in {Undefined, SortZoneTable}
  /\ sortedData = <<>>
  /\ resortedData = <<>>
  /\ sortPc = "idle"
  /\ ValIdle
  /\ PubIdle
  /\ CleanIdle
  /\ ZoneIdle
  /\ GenIdle
  /\ PipeIdle
  /\ FetchIdle
  /\ WriteIdle
  /\ WorkerIdle

\* const sortedData = wineDataSorter(cleanedData, zoneMapping)
SortCall ==
  /\ sortPc = "idle"
  /\ LET sorted == wineDataSorter(sortData, sortZoneMapping)
     IN IF sorted.threw THEN sortPc' = "threw" /\ UNCHANGED sortedData
        ELSE sortPc' = "sorted" /\ sortedData' = sorted.data
  /\ UNCHANGED <<sortData, sortZoneMapping, resortedData, valVars, pubVars, cleanVars, zoneVars, genVars, pipeVars, fetchVars, writeVars, workerVars>>

\* the same records, supplied in another order, sorted again
SortAgain ==
  /\ sortPc = "sorted"
  /\ \E d \in Reorderings(sortData) :
       LET sorted == wineDataSorter(d, sortZoneMapping)
       IN IF sorted.threw THEN sortPc' = "threw" /\ UNCHANGED resortedData
          ELSE sortPc' = "resorted" /\ resortedData' = sorted.data
  /\ UNCHANGED <<sortData, sortZoneMapping, sortedData, valVars, pubVars, cleanVars, zoneVars, genVars, pipeVars, fetchVars, writeVars, workerVars>>

NextSort == SortCall \/ SortAgain

SpecSort == InitSort /\ [][NextSort]_vars

(***************************************************************************)
(* Specification of the validator followed by the assembler                *)
(***************************************************************************)
InitValidate ==
  /\ \E n \in 1..MaxValRecords :
       \E fs \in [1..n -> ValFieldSets] : valData = ValInput(fs)
  /\ valZoneMapping \in {Undefined, ValZoneTable}
  /\ valIndex = 1
  /\ valPc = "loop"
  /\ currentRecord = <<>>
  /\ invalidFields = <<>>
  /\ validRecords = <<>>
  /\ warningRecords = <<>>
  /\ invalidRecords = <<>>
  /\ categories = <<>>
  /\ validIds = <<>>
  /\ lookupsInFlight = {}
  /\ winesArray = <<>>
  /\ SortIdle
  /\ PubIdle
  /\ CleanIdle
  /\ ZoneIdle
  /\ GenIdle
  /\ PipeIdle
  /\ FetchIdle
  /\ WriteIdle
  /\ WorkerIdle

\* Mutant: the lookup of the next record is started with the one of this record
lookupsStartedAhead(data, i) == {i} \cup {j \in {i + 1} : j <= Len(data)}

\* the lookups an iteration starts: `await getEnotecaDataById(...)` of its own
\* record, awaited before the loop goes on
lookupsStartedAt(data, i) == {i}

\* The end of one loop iteration: the fields after the producer, the category
\* collected, the record filed in one of the three lists
FinishIteration(st0) ==
  LET record == valData[valIndex]
      st == restOfIteration(st0, record, valZoneMapping)
      bucket == bucketOf(st)
  IN IF loopThrows(st)
       THEN \* catch (error) { throw new Error({...}) } (wineList.js:758-772)
            /\ valPc' = "thrown"
            /\ UNCHANGED <<categories, invalidRecords, warningRecords, validRecords,
                           validIds, currentRecord, invalidFields, valIndex>>
     ELSE
     /\ categories' = collectCategory(categories, st)
     /\ invalidRecords' = IF bucket = "invalid"
                            THEN Append(invalidRecords, [id |-> record.id, invalidFields |-> st.inv])
                          ELSE invalidRecords
     /\ warningRecords' = IF bucket = "warning"
                            THEN Append(warningRecords, [id |-> record.id, warningFields |-> st.warn])
                          ELSE warningRecords
     /\ validRecords' = IF bucket = "valid" THEN Append(validRecords, st.cur) ELSE validRecords
     /\ validIds' = IF bucket = "valid" THEN Append(validIds, record.id) ELSE validIds
     /\ currentRecord' = st.cur
     /\ invalidFields' = st.inv
     /\ valIndex' = valIndex + 1
     /\ valPc' = "loop"

\* A loop iteration for a record without a producer: nothing is awaited
ValidateRecordWithoutProducer ==
  /\ valPc = "loop"
  /\ valIndex <= Len(valData)
  /\ ~Truthy(Prop(valData[valIndex].fields, "Produttore"))
  /\ LET st == nameStep(valData[valIndex])
     IN FinishIteration([st EXCEPT !.inv = Append(@, "Produttore")])
  /\ UNCHANGED <<valData, valZoneMapping, lookupsInFlight, winesArray, sortVars, pubVars, cleanVars, zoneVars, genVars, pipeVars, fetchVars, writeVars, workerVars>>

\* A loop iteration up to the awaited lookup of the producer
ValidateRecordBegin ==
  /\ valPc = "loop"
  /\ valIndex <= Len(valData)
  /\ Truthy(Prop(valData[valIndex].fields, "Produttore"))
  /\ LET st == nameStep(valData[valIndex])
     IN /\ currentRecord' = st.cur
        /\ invalidFields' = st.inv
  /\ valPc' = "lookup"
  /\ lookupsInFlight' = lookupsInFlight \cup lookupsStartedAt(valData, valIndex)
  /\ UNCHANGED <<valData, valZoneMapping, valIndex, validRecords, warningRecords,
                 invalidRecords, categories, validIds, winesArray, sortVars, pubVars, cleanVars, zoneVars, genVars, pipeVars, fetchVars, writeVars, workerVars>>

\* The lookup settles and the iteration runs to its end
ValidateRecordResume ==
  /\ valPc = "lookup"
  /\ LET outcome == getEnotecaDataById(valData[valIndex].fields["Produttore"])
     IN FinishIteration(producerStep([cur |-> currentRecord, inv |-> invalidFields], outcome))
  /\ lookupsInFlight' = lookupsInFlight \ {valIndex}
  /\ UNCHANGED <<valData, valZoneMapping, winesArray, sortVars, pubVars, cleanVars, zoneVars, genVars, pipeVars, fetchVars, writeVars, workerVars>>

\* return { validRecords, warningRecords, invalidRecords, categories }
ValidateReturn ==
  /\ valPc = "loop"
  /\ valIndex > Len(valData)
  /\ valPc' = "returned"
  /\ UNCHANGED <<valData, valZoneMapping, valIndex, currentRecord, invalidFields,
                 validRecords, warningRecords, invalidRecords, categories, validIds, lookupsInFlight,
                 winesArray, sortVars, pubVars, cleanVars, zoneVars, genVars, pipeVars, fetchVars, writeVars, workerVars>>

\* const winesYamlString = wineDataYamlBuilder(validRecords)
BuildWines ==
  /\ valPc = "returned"
  /\ winesArray' = wineDataYamlBuilder(validRecords)
  /\ valPc' = "built"
  /\ UNCHANGED <<valData, valZoneMapping, valIndex, currentRecord, invalidFields,
                 validRecords, warningRecords, invalidRecords, categories, validIds, lookupsInFlight,
                 sortVars, pubVars, cleanVars, zoneVars, genVars, pipeVars, fetchVars, writeVars, workerVars>>

NextValidate ==
  \/ ValidateRecordWithoutProducer
  \/ ValidateRecordBegin
  \/ ValidateRecordResume
  \/ ValidateReturn
  \/ BuildWines

SpecValidate == InitValidate /\ [][NextValidate]_vars

(***************************************************************************)
(* Specification of the publisher                                          *)
(***************************************************************************)
\* a call with every parameter given
BasePubArgs ==
  [token |-> Str("pat"), baseId |-> Str("app1"), tableIdOrName |-> Str("tblLists"),
   fields |-> Obj(("Nome" :> Str("Carta")) @@ ("fldAtt" :> Arr(<<>>))),
   attachmentFieldIdOrName |-> Str("fldAtt"), filePath |-> Str("/tmp/out/carta.pdf"),
   filename |-> Undefined]

BlankValues == {Undefined, Null, Str("")}

\* the base call, the calls that differ from it in one parameter, and a call
\* with two parameters missing
PubArgSets ==
  {BasePubArgs}
    \cup {[BasePubArgs EXCEPT !.token = v] : v \in BlankValues}
    \cup {[BasePubArgs EXCEPT !.baseId = v] : v \in BlankValues}
    \cup {[BasePubArgs EXCEPT !.tableIdOrName = v] : v \in BlankValues}
    \cup {[BasePubArgs EXCEPT !.fields = v] : v \in {Undefined, Null, Str("Carta"), Obj(<<>>)}}
    \cup {[BasePubArgs EXCEPT !.attachmentFieldIdOrName = v] : v \in BlankValues \cup {Str("Allegato")}}
    \cup {[BasePubArgs EXCEPT !.filePath = v] :
            v \in BlankValues \cup {Str("https://cdn.example/out/carta.pdf"),
                                    Str("http://cdn.example/")}}
    \cup {[BasePubArgs EXCEPT !.filename = Str("lista.pdf")]}
    \cup {[BasePubArgs EXCEPT !.baseId = Str(""), !.filePath = Undefined]}

FileSizes == {1024, MAX, MAX + 1}

\* the read of the file settles.  A path: fs.readFile rejects or yields so
\* many bytes.  A URL: fetch rejects, or it is answered, not ok or ok, and
\* the body is still to be read
FileOutcomes(url) ==
  IF url
    THEN { [threw |-> TRUE, message |-> "fetch failed"],
           [threw |-> FALSE, ok |-> FALSE, message |-> "404 Not Found"],
           [threw |-> FALSE, ok |-> TRUE] }
  ELSE {[threw |-> TRUE, message |-> "ENOENT"]}
         \cup {[threw |-> FALSE, ok |-> TRUE, size |-> n] : n \in FileSizes}

\* response.arrayBuffer() settles: the connection is lost while the body
\* arrives, or so many bytes are in
BodyOutcomes ==
  {[threw |-> TRUE, message |-> "terminated"]}
    \cup {[threw |-> FALSE, size |-> n] : n \in FileSizes}

AttachmentObject == Obj(("id" :> Str("att1")) @@ ("filename" :> Str("carta.pdf")))

RemoteRecord(fieldProps) == Obj(("id" :> Str("recNew")) @@ ("fields" :> Obj(fieldProps)))

\* what the remote table answers to createRecord: an error, a record, a record
\* without an id, an empty body
CreateOutcomes(args) ==
  { [ok |-> FALSE, status |-> 403, message |-> "Forbidden"],
    [ok |-> FALSE, status |-> 422, message |-> "Invalid request"],
    [ok |-> TRUE, record |-> RemoteRecord(fieldsWithoutAttachment(args).p)],
    [ok |-> TRUE, record |-> Obj(("fields" :> fieldsWithoutAttachment(args)))],
    [ok |-> TRUE, record |-> Null] }

\* what it answers to the getRecord made before the upload
VerifyOutcomes(args) ==
  { [ok |-> FALSE, status |-> 404, message |-> "Record not found"],
    [ok |-> TRUE, record |-> RemoteRecord(fieldsWithoutAttachment(args).p)],
    [ok |-> TRUE, record |-> Null] }

\* what happens to the POST of the file: the request fails, or is answered
\* with an error, with a body that is no JSON, or with a JSON body
UploadOutcomes ==
  { [threw |-> TRUE, message |-> "fetch failed"],
    [threw |-> FALSE, ok |-> FALSE, status |-> 404, body |-> "NOT_FOUND"],
    [threw |-> FALSE, ok |-> FALSE, status |-> 500, body |-> "SERVER_ERROR"],
    [threw |-> FALSE, ok |-> TRUE, status |-> 200, body |-> "<html>"],
    [threw |-> FALSE, ok |-> TRUE, status |-> 200, body |-> "{}"] }

\* what the getRecord made after the upload answers: an error, an empty body,
\* a body that is no record, a record in which the attachment field is left
\* out, an empty list, no list, or a list with the attachment
RefetchOutcomes(args) ==
  { [ok |-> FALSE, status |-> 500, message |-> "Server error"],
    [ok |-> TRUE, record |-> Null],
    [ok |-> TRUE, record |-> Obj(("raw" :> Str("<html>")))],
    [ok |-> TRUE, record |-> RemoteRecord(("Nome" :> Str("Carta")))] }
  \cup { [ok |-> TRUE,
          record |-> RemoteRecord(("Nome" :> Str("Carta")) @@
                                  (args.attachmentFieldIdOrName.s :> v))] :
           v \in {Arr(<<>>), Str("carta.pdf"), Arr(<<AttachmentObject>>)} }

InitPublish ==
  /\ pubArgs \in PubArgSets
  /\ pubPc = "called"
  /\ sizeBytes = 0
  /\ finalFilename = Undefined
  /\ recordId = Undefined
  /\ verifyRecord = Undefined
  /\ uploadResponse = Undefined
  /\ pubResult = Undefined
  /\ pubError = <<>>
  /\ pubCalls = <<>>
  /\ SortIdle
  /\ ValIdle
  /\ CleanIdle
  /\ ZoneIdle
  /\ GenIdle
  /\ PipeIdle
  /\ FetchIdle
  /\ WriteIdle
  /\ WorkerIdle

\* Mutant: the record is polled, a second sleep and fetch follow the first
fetchAfterWaitPolling == <<"getRecord", "sleep", "getRecord">>

\* what the call issues when the timer of
\* await new Promise((resolve) => setTimeout(resolve, 1000)) has fired: one
\* getRecord
fetchAfterWait == <<"getRecord">>

\* createRecord reads `res.records` of the parsed body (line 542); the body of
\* an empty answer is null and the read throws a TypeError, which carries no
\* status (0 here)
nullBodyError ==
  [status |-> 0, message |-> "Cannot read properties of null (reading 'records')"]

\* throw new Error(message): the call rejects
Reject(message) ==
  /\ pubPc' = "rejected"
  /\ pubError' = message

\* The parameter checks, then the read or the download of the file begins
PublishCalled ==
  /\ pubPc = "called"
  /\ IF validateParameters(pubArgs) # <<>>
       THEN /\ Reject(validateParameters(pubArgs))
          /\ UNCHANGED pubCalls
     ELSE /\ pubPc' = "reading"
          /\ pubCalls' = Append(pubCalls, IF isUrl(pubArgs.filePath) THEN "fetch" ELSE "readFile")
          /\ UNCHANGED pubError
  /\ UNCHANGED <<pubArgs, uploadResponse, sizeBytes, finalFilename, recordId, verifyRecord, pubResult,
                 sortVars, valVars, cleanVars, zoneVars, genVars, pipeVars, fetchVars, writeVars, workerVars>>

\* The file is in: its name and size are settled, and createRecord is called
\* unless the file is too large
FileRead(size) ==
  /\ sizeBytes' = size
  /\ finalFilename' = finalFilenameOf(pubArgs)
  /\ IF tooLarge(size)
       THEN /\ Reject(tooLargeMessage(size))
            /\ pubCalls' = Append(pubCalls, "file:ok")
     ELSE /\ pubPc' = "creating"
          /\ pubCalls' = pubCalls \o <<"file:ok", "createRecord">>
          /\ UNCHANGED pubError

\* The read of the file is refused
FileRefused(message) ==
  /\ Reject(message)
  /\ pubCalls' = Append(pubCalls, "file:failed")
  /\ UNCHANGED <<sizeBytes, finalFilename>>

\* await fs.readFile(filePath), or await fetch(filePath), settles: the file
\* of a path is in; the answer to a download, when ok, has its body read next
\* with await response.arrayBuffer()
FileSettles ==
  /\ pubPc = "reading"
  /\ \E out \in FileOutcomes(isUrl(pubArgs.filePath)) :
       IF out.threw THEN FileRefused(<<out.message>>)
       ELSE IF ~out.ok THEN FileRefused(<<"Failed to download file from URL: ", out.message>>)
       ELSE IF isUrl(pubArgs.filePath)
         THEN /\ pubPc' = "reading body"
              /\ UNCHANGED <<sizeBytes, finalFilename, pubError, pubCalls>>
       ELSE FileRead(out.size)
  /\ UNCHANGED <<pubArgs, uploadResponse, recordId, verifyRecord, pubResult, sortVars, valVars, cleanVars, zoneVars, genVars, pipeVars, fetchVars, writeVars, workerVars>>

\* await response.arrayBuffer() settles: the file downloaded is in
DownloadBodySettles ==
  /\ pubPc = "reading body"
  /\ \E out \in BodyOutcomes :
       IF out.threw THEN FileRefused(<<out.message>>) ELSE FileRead(out.size)
  /\ UNCHANGED <<pubArgs, uploadResponse, recordId, verifyRecord, pubResult, sortVars, valVars, cleanVars, zoneVars, genVars, pipeVars, fetchVars, writeVars, workerVars>>

\* createRecord settles; with a record id in hand the call sets a timer of one
\* second and hands control back
CreateSettles ==
  /\ pubPc = "creating"
  /\ \E out \in CreateOutcomes(pubArgs) :
       IF ~out.ok
         THEN /\ Reject(createErrorMessage(out, pubArgs))
              /\ pubCalls' = Append(pubCalls, "createRecord:failed")
              /\ UNCHANGED recordId
       ELSE IF out.record = Null
         THEN /\ Reject(createErrorMessage(nullBodyError, pubArgs))
              /\ pubCalls' = Append(pubCalls, "createRecord:ok")
              /\ UNCHANGED recordId
       ELSE /\ recordId' = Prop(out.record.p, "id")
            /\ IF ~Truthy(Prop(out.record.p, "id"))
                 THEN /\ Reject(<<"Failed to create record: no record ID returned">>)
                      /\ pubCalls' = Append(pubCalls, "createRecord:ok")
               ELSE /\ pubPc' = "waiting to verify"
                    /\ pubCalls' = pubCalls \o <<"createRecord:ok", "sleep">>
                    /\ UNCHANGED pubError
  /\ UNCHANGED <<pubArgs, uploadResponse, sizeBytes, finalFilename, verifyRecord, pubResult, sortVars, valVars, cleanVars, zoneVars, genVars, pipeVars, fetchVars, writeVars, workerVars>>

\* The timer set after the creation fires: the record just created is fetched
VerifyTimerFires ==
  /\ pubPc = "waiting to verify"
  /\ pubPc' = "verifying"
  /\ pubCalls' = pubCalls \o fetchAfterWait
  /\ UNCHANGED <<pubArgs, uploadResponse, sizeBytes, finalFilename, recordId, verifyRecord, pubResult,
                 pubError, sortVars, valVars, cleanVars, zoneVars, genVars, pipeVars,
                 fetchVars, writeVars, workerVars>>

\* The fetch of the record just created settles; the file is posted
VerifySettles ==
  /\ pubPc = "verifying"
  /\ \E out \in VerifyOutcomes(pubArgs) :
       LET settled == IF out.ok THEN "getRecord:ok" ELSE "getRecord:failed"
       IN IF verifyError(recordId, out) # <<>>
            THEN /\ Reject(verifyError(recordId, out))
                 /\ pubCalls' = Append(pubCalls, settled)
          ELSE /\ pubPc' = "uploading"
               /\ pubCalls' = pubCalls \o <<settled, "uploadAttachment">>
               /\ UNCHANGED pubError
  /\ UNCHANGED <<pubArgs, uploadResponse, sizeBytes, finalFilename, recordId, verifyRecord, pubResult,
                 sortVars, valVars, cleanVars, zoneVars, genVars, pipeVars, fetchVars, writeVars, workerVars>>

\* await fetch(uploadUrl, ...) settles: the request fails, or it is answered
\* and the body of the answer is read next, with await uploadResponse.text()
\* when the answer is not ok and await uploadResponse.json() when it is
UploadSettles ==
  /\ pubPc = "uploading"
  /\ \E out \in UploadOutcomes :
       IF out.threw
         THEN /\ Reject(enhancedErrorMessage(<<out.message>>))
              /\ pubCalls' = Append(pubCalls, "uploadAttachment:failed")
              /\ UNCHANGED uploadResponse
       ELSE /\ pubPc' = "reading upload body"
            /\ uploadResponse' = [ok |-> out.ok, status |-> out.status]
            /\ pubCalls' = Append(pubCalls, IF out.ok THEN "uploadAttachment:ok"
                                            ELSE "uploadAttachment:failed")
            /\ UNCHANGED pubError
  /\ UNCHANGED <<pubArgs, sizeBytes, finalFilename, recordId, verifyRecord, pubResult,
                 sortVars, valVars, cleanVars, zoneVars, genVars, pipeVars, fetchVars, writeVars, workerVars>>

\* the answers to the POST that have the status of uploadResponse
AnswersLike(response) ==
  {out \in UploadOutcomes :
     ~out.threw /\ out.ok = response.ok /\ out.status = response.status}

\* the body of the answer is in: an error is thrown for an answer that is
\* not ok; the body of an ok answer is parsed, and on a body that is JSON the
\* call sets a timer of one second and hands control back
UploadBodySettles ==
  /\ pubPc = "reading upload body"
  /\ \E out \in AnswersLike(uploadResponse) :
       IF ~out.ok
         THEN /\ Reject(enhancedErrorMessage(uploadFailedMessage(out, pubArgs, recordId)))
              /\ UNCHANGED pubCalls
       ELSE IF out.body # "{}"
         THEN /\ Reject(enhancedErrorMessage(<<"Unexpected token in JSON">>))
              /\ UNCHANGED pubCalls
       ELSE /\ pubPc' = "waiting to refetch"
            /\ pubCalls' = Append(pubCalls, "sleep")
            /\ UNCHANGED pubError
  /\ UNCHANGED <<pubArgs, uploadResponse, sizeBytes, finalFilename, recordId, verifyRecord,
                 pubResult, sortVars, valVars, cleanVars, zoneVars, genVars, pipeVars,
                 fetchVars, writeVars, workerVars>>

\* The timer set after the upload fires: the record is fetched again
RefetchTimerFires ==
  /\ pubPc = "waiting to refetch"
  /\ pubPc' = "refetching"
  /\ pubCalls' = pubCalls \o fetchAfterWait
  /\ UNCHANGED <<pubArgs, uploadResponse, sizeBytes, finalFilename, recordId, verifyRecord, pubResult,
                 pubError, sortVars, valVars, cleanVars, zoneVars, genVars, pipeVars,
                 fetchVars, writeVars, workerVars>>

\* The fetch after the upload settles: the record is returned when its
\* attachment field holds the attachment, the call rejects otherwise
RefetchSettles ==
  /\ pubPc = "refetching"
  /\ \E out \in RefetchOutcomes(pubArgs) :
       IF ~out.ok
         THEN /\ Reject(enhancedErrorMessage(<<out.message>>))
              /\ pubCalls' = Append(pubCalls, "getRecord:failed")
              /\ UNCHANGED <<verifyRecord, pubResult>>
       ELSE /\ verifyRecord' = out.record
            /\ pubCalls' = Append(pubCalls, "getRecord:ok")
            /\ IF out.record = Null
                 THEN /\ Reject(enhancedErrorMessage(
                                  <<"Cannot read properties of null (reading 'fields')">>))
                      /\ UNCHANGED pubResult
               ELSE LET attachmentField ==
                          attachmentFieldOf(out.record, pubArgs.attachmentFieldIdOrName)
                    IN IF hasAttachment(attachmentField)
                         THEN /\ pubPc' = "returned"
                              /\ pubResult' = out.record
                              /\ UNCHANGED pubError
                       ELSE /\ Reject(enhancedErrorMessage(
                                        verificationFailedMessage(finalFilename,
                                          pubArgs.attachmentFieldIdOrName, attachmentField)))
                            /\ UNCHANGED pubResult
  /\ UNCHANGED <<pubArgs, uploadResponse, sizeBytes, finalFilename, recordId, sortVars, valVars, cleanVars, zoneVars, genVars, pipeVars, fetchVars, writeVars, workerVars>>

NextPublish ==
  \/ PublishCalled
  \/ FileSettles
  \/ DownloadBodySettles
  \/ CreateSettles
  \/ VerifyTimerFires
  \/ VerifySettles
  \/ UploadSettles
  \/ UploadBodySettles
  \/ RefetchTimerFires
  \/ RefetchSettles

SpecPublish == InitPublish /\ [][NextPublish]_vars

(***************************************************************************)
(* Specification of the cleaner                                            *)
(***************************************************************************)
MaxCleanRecords == 2

CreatedTime == Str("2024-01-01T00:00:00.000Z")

RawRecord(id, fields) ==
  Obj(("id" :> Str(id)) @@ ("createdTime" :> CreatedTime) @@ ("fields" :> fields))

\* a value under each name of the list of kept fields, and two other fields
EveryKeptField == [key \in KeepFieldNames |-> Str(key)]

OtherFields == ("Note interne" :> Str("riservato")) @@ ("Fornitore" :> Arr(<<Str("recF1")>>))

\* the entries of data.records: well formed, without kept fields, without
\* fields, with fields of another kind, without an id, and not objects
RawEntries ==
  { RawRecord("rec1", Obj(("Vino + Annata" :> Str("Barolo")) @@ ("Zona" :> Arr(<<Str("recZ1")>>))
                          @@ ("Prezzo In Carta Testo" :> Str("12,50 €")) @@ OtherFields)),
    RawRecord("rec2", Obj(EveryKeptField @@ OtherFields)),
    RawRecord("rec3", Obj(OtherFields)),
    RawRecord("rec4", Obj(<<>>)),
    Obj(("id" :> Str("rec5")) @@ ("createdTime" :> CreatedTime)),
    RawRecord("rec6", Str("Zona")),
    RawRecord("rec7", Null),
    RawRecord("rec8", Arr(<<Str("Zona")>>)),
    Obj(("fields" :> Obj(("Regione" :> Str("Toscana")) @@ OtherFields))),
    Null,
    Num(5),
    Str("rec9") }

CleanResponses ==
  {Undefined, Null, Obj(<<>>), Obj(("records" :> Str("rec1"))), Obj(("records" :> Obj(<<>>)))}
    \cup {Obj(("records" :> Arr(rs)) @@ ("offset" :> Str("itr1"))) :
            rs \in UNION {[1..n -> RawEntries] : n \in 0..MaxCleanRecords}}

InitClean ==
  /\ cleanData \in CleanResponses
  /\ cleanPc = "called"
  /\ cleanedRecords = <<>>
  /\ cleanedTwice = <<>>
  /\ recleanedRecords = <<>>
  /\ SortIdle
  /\ ValIdle
  /\ PubIdle
  /\ ZoneIdle
  /\ GenIdle
  /\ PipeIdle
  /\ FetchIdle
  /\ WriteIdle
  /\ WorkerIdle

\* const cleanedData = wineDataCleaner(data)
CleanCall ==
  /\ cleanPc = "called"
  /\ LET result == wineDataCleaner(cleanData)
     IN IF result = CannotReadId
          THEN cleanPc' = "thrown" /\ UNCHANGED cleanedRecords
        ELSE cleanPc' = "returned" /\ cleanedRecords' = result.a
  /\ UNCHANGED <<cleanData, cleanedTwice, recleanedRecords, sortVars, valVars, pubVars, zoneVars, genVars, pipeVars, fetchVars, writeVars, workerVars>>

\* wineDataCleaner(cleanedData): the returned array passed as `data`
CleanResultAgain ==
  /\ cleanPc = "returned"
  /\ LET result == wineDataCleaner(Arr(cleanedRecords))
     IN IF result = CannotReadId
          THEN cleanPc' = "thrown" /\ UNCHANGED cleanedTwice
        ELSE cleanPc' = "reapplied" /\ cleanedTwice' = result.a
  /\ UNCHANGED <<cleanData, cleanedRecords, recleanedRecords, sortVars, valVars, pubVars, zoneVars, genVars, pipeVars, fetchVars, writeVars, workerVars>>

\* wineDataCleaner({ records: cleanedData })
CleanRecordsAgain ==
  /\ cleanPc = "reapplied"
  /\ LET result == wineDataCleaner(Obj(("records" :> Arr(cleanedRecords))))
     IN IF result = CannotReadId
          THEN cleanPc' = "thrown" /\ UNCHANGED recleanedRecords
        ELSE cleanPc' = "recleaned" /\ recleanedRecords' = result.a
  /\ UNCHANGED <<cleanData, cleanedRecords, cleanedTwice, sortVars, valVars, pubVars, zoneVars, genVars, pipeVars, fetchVars, writeVars, workerVars>>

NextClean ==
  \/ CleanCall
  \/ CleanResultAgain
  \/ CleanRecordsAgain

SpecClean == InitClean /\ [][NextClean]_vars

(***************************************************************************)
(* Specification of the zone mapping                                       *)
(***************************************************************************)
MaxZoneRecords == 2

ZoneRecord(id, fields) == Obj(("id" :> id) @@ ("fields" :> fields))

\* the entries of zonesData.records: the three names a zone goes by, the two
\* names of its priority, missing, empty and null values, an id twice,
\* records without an id, entries that are not objects
ZoneEntries ==
  { ZoneRecord(Str("recZ1"), Obj(("Nome Zona" :> Str("Chianti")) @@ ("Regione" :> Str("Toscana"))
                                 @@ ("Nazione" :> Str("Italia")) @@ ("Priorità Zone" :> Num(2)))),
    ZoneRecord(Str("recZ2"), Obj(("Zona" :> Str("Bolgheri")) @@ ("Priorità Zona" :> Num(1)))),
    ZoneRecord(Str("recZ3"), Obj(("Nome" :> Str("Langhe")) @@ ("Regione" :> Null))),
    ZoneRecord(Str("recZ4"), Obj(("Nome Zona" :> Str("")) @@ ("Zona" :> Str("Etna")))),
    ZoneRecord(Str("recZ1"), Obj(("Nome Zona" :> Str("Chianti Classico")))),
    ZoneRecord(Str("recZ5"), Obj(<<>>)),
    ZoneRecord(Str("recZ6"), Str("Zona")),
    Obj(("id" :> Str("recZ7"))),
    Obj(("fields" :> Obj(("Nome Zona" :> Str("Soave"))))),
    ZoneRecord(Str(""), Obj(("Nome Zona" :> Str("Collio")))),
    ZoneRecord(Null, Obj(("Nome Zona" :> Str("Carso")))),
    Null,
    Str("recZ8") }

\* how the request for the zones table settles
ZoneResponses ==
  {[ok |-> FALSE], [ok |-> TRUE, data |-> Undefined], [ok |-> TRUE, data |-> Obj(<<>>)]}
    \cup {[ok |-> TRUE, data |-> Obj(("records" :> Arr(rs)))] :
            rs \in UNION {[1..n -> ZoneEntries] : n \in 0..MaxZoneRecords}}

InitZones ==
  /\ zonesResponse \in ZoneResponses
  /\ zonePc = "fetching"
  /\ zoneMapping = <<>>
  /\ SortIdle
  /\ ValIdle
  /\ PubIdle
  /\ CleanIdle
  /\ GenIdle
  /\ PipeIdle
  /\ FetchIdle
  /\ WriteIdle
  /\ WorkerIdle

\* the request is rejected: catch (error) { throw new Error({...}) }
ZonesFetchRejected ==
  /\ zonePc = "fetching"
  /\ ~zonesResponse.ok
  /\ zonePc' = "thrown"
  /\ UNCHANGED <<zonesResponse, zoneMapping, sortVars, valVars, pubVars, cleanVars, genVars, pipeVars, fetchVars, writeVars, workerVars>>

\* the request resolves: the loop over the records, return zoneMapping
ZonesFetchResolved ==
  /\ zonePc = "fetching"
  /\ zonesResponse.ok
  /\ zoneMapping' = getZoneMapping(zonesResponse.data)
  /\ zonePc' = "returned"
  /\ UNCHANGED <<zonesResponse, sortVars, valVars, pubVars, cleanVars, genVars, pipeVars, fetchVars, writeVars, workerVars>>

NextZones ==
  \/ ZonesFetchRejected
  \/ ZonesFetchResolved

SpecZones == InitZones /\ [][NextZones]_vars

(***************************************************************************)
(* Specification of the generation of the document                         *)
(***************************************************************************)
MaxPipeRecords == 3

\* the zones table: priorities 2, 1, none, 1.5 with a name held in a list,
\* 2 again and 0
PipeZoneRecords ==
  << ZoneRecord(Str("recZ1"), Obj(("Nome Zona" :> Str("Chianti")) @@ ("Regione" :> Str("Toscana"))
                                  @@ ("Priorità Zone" :> Num(2)))),
     ZoneRecord(Str("recZ2"), Obj(("Nome Zona" :> Str("Bolgheri")) @@ ("Priorità Zone" :> Num(1)))),
     ZoneRecord(Str("recZ3"), Obj(("Nome Zona" :> Str("Langhe")))),
     ZoneRecord(Str("recZ4"), Obj(("Nome Zona" :> Arr(<<Str("Amarone")>>)) @@ ("Priorità Zone" :> Dec(1, 50)))),
     ZoneRecord(Str("recZ5"), Obj(("Nome Zona" :> Str("Carmignano")) @@ ("Priorità Zona" :> Num(2)))),
     ZoneRecord(Str("recZ6"), Obj(("Nome Zona" :> Str("Montalcino")) @@ ("Priorità Zone" :> Num(0)))) >>

PipeZoneResponses ==
  { [ok |-> FALSE],
    [ok |-> TRUE, data |-> Obj(("records" :> Arr(<<>>)))],
    [ok |-> TRUE, data |-> Obj(("records" :> Arr(PipeZoneRecords)))] }

\* the fields of a record of the inventory: every field of a valid record, and
\* a field the cleaner drops
BasePipeFields == BaseValFields @@ OtherFields

PipeAlternatives ==
  { <<"Tipologia", Str("rosso")>>, <<"Regione", Str("Piemonte")>>,
    <<"Zona", Arr(<<Str("recZ2")>>)>>, <<"Zona", Arr(<<Str("recZ3")>>)>>,
    <<"Zona", Arr(<<Str("recZ4")>>)>>,
    <<"Zona", Arr(<<Str("recZ5")>>)>>, <<"Zona", Arr(<<Str("recZ6")>>)>>,
    <<"Zona", Arr(<<Str("recZ9")>>)>>, <<"Zona", Absent>> }

PipeFieldSets ==
  {BasePipeFields} \cup {WithField(BasePipeFields, alt[1], alt[2]) : alt \in PipeAlternatives}

PipeInput(fs) == Obj(("records" :> Arr([p \in 1..Len(fs) |-> RawRecord(RecIds[p], Obj(fs[p]))])))

InitPipeline ==
  /\ \E n \in 1..MaxPipeRecords :
       \E fs \in [1..n -> PipeFieldSets] : pipeData = PipeInput(fs)
  /\ pipeZones \in PipeZoneResponses
  /\ pipePc = "called"
  /\ pipeCleaned = <<>>
  /\ pipeZoneMapping = <<>>
  /\ pipeSorted = <<>>
  /\ pipeResult = Undefined
  /\ pipeWines = <<>>
  /\ SortIdle
  /\ ValIdle
  /\ PubIdle
  /\ CleanIdle
  /\ ZoneIdle
  /\ GenIdle
  /\ FetchIdle
  /\ WriteIdle
  /\ WorkerIdle

PipeUnchanged == <<sortVars, valVars, pubVars, cleanVars, zoneVars, genVars, fetchVars, writeVars, workerVars>>

\* # 0. const cleanedData = wineDataCleaner(data), then getZoneMapping is awaited
PipeClean ==
  /\ pipePc = "called"
  /\ LET cleaned == wineDataCleaner(pipeData)
     IN IF cleaned = CannotReadId
          THEN pipePc' = "rejected" /\ UNCHANGED pipeCleaned
        ELSE pipePc' = "zones" /\ pipeCleaned' = cleaned.a
  /\ UNCHANGED <<pipeData, pipeZones, pipeZoneMapping, pipeSorted, pipeResult, pipeWines,
                 PipeUnchanged>>

\* # 1. getZoneMapping is rejected
PipeZonesRejected ==
  /\ pipePc = "zones"
  /\ ~pipeZones.ok
  /\ pipePc' = "rejected"
  /\ UNCHANGED <<pipeData, pipeZones, pipeCleaned, pipeZoneMapping, pipeSorted, pipeResult,
                 pipeWines, PipeUnchanged>>

\* # 1. getZoneMapping resolves, # 2. the records are sorted, # 3. the
\* validation is awaited; an exception of the sorter rejects the call
PipeZonesResolved ==
  /\ pipePc = "zones"
  /\ pipeZones.ok
  /\ pipeZoneMapping' = getZoneMapping(pipeZones.data)
  /\ LET sorted == wineDataSorter([p \in 1..Len(pipeCleaned) |-> recordOf(pipeCleaned[p])],
                                  pipeZoneMapping')
     IN IF sorted.threw THEN pipePc' = "rejected" /\ UNCHANGED pipeSorted
        ELSE pipePc' = "validating" /\ pipeSorted' = sorted.data
  /\ UNCHANGED <<pipeData, pipeZones, pipeCleaned, pipeResult, pipeWines, PipeUnchanged>>

\* # 3. the validation resolves, # 4. the sections are assembled
PipeValidated ==
  /\ pipePc = "validating"
  /\ LET result == wineDataValidationAndNormalization(pipeSorted, pipeZoneMapping)
     IN IF result.thrown
          THEN pipePc' = "rejected" /\ UNCHANGED <<pipeResult, pipeWines>>
        ELSE /\ pipeResult' = result
             /\ pipeWines' = wineDataYamlBuilder(pipeResult'.validRecords)
             /\ pipePc' = "returned"
  /\ UNCHANGED <<pipeData, pipeZones, pipeCleaned, pipeZoneMapping, pipeSorted, PipeUnchanged>>

NextPipeline ==
  \/ PipeClean
  \/ PipeZonesRejected
  \/ PipeZonesResolved
  \/ PipeValidated

SpecPipeline == InitPipeline /\ [][NextPipeline]_vars

(***************************************************************************)
(* Specification of a generation run                                       *)
(***************************************************************************)
GenEnotecas == {"Porgi l'Altra Pancia", "Vinoteca Due Mari"}

\* a token given, left out or empty
GivenOrNot(v) == {Str(v), Undefined, Str("")}

\* the call, and the two variables of the environment a token is read from
GenArgSets ==
  [enoteca : GenEnotecas,
   access_token : GivenOrNot("patArg"),
   AIRTABLE_API_KEY : {Str("patKey"), Undefined},
   AIRTABLE_AUTH_TOKEN : {Str("patEnv"), Undefined}]

InitGenerate ==
  /\ genArgs \in GenArgSets
  /\ genPc = "called"
  /\ enotecaRecordId = Null
  /\ genData = Undefined
  /\ enotecaData = Undefined
  /\ yamlString = Undefined
  /\ genTemp = Undefined
  /\ genError = <<>>
  /\ SortIdle
  /\ ValIdle
  /\ PubIdle
  /\ CleanIdle
  /\ ZoneIdle
  /\ PipeIdle
  /\ FetchIdle
  /\ WriteIdle
  /\ WorkerIdle

\* access_token = process.env.AIRTABLE_API_KEY when the call leaves it out;
\* a falsy one is replaced by AIRTABLE_API_KEY || AIRTABLE_AUTH_TOKEN
accessToken ==
  LET access_token == IF genArgs.access_token = Undefined THEN genArgs.AIRTABLE_API_KEY
                      ELSE genArgs.access_token
  IN OrElse(access_token, OrElse(genArgs.AIRTABLE_API_KEY, genArgs.AIRTABLE_AUTH_TOKEN))

GenUnchanged == <<sortVars, valVars, pubVars, cleanVars, zoneVars, pipeVars, fetchVars, writeVars, workerVars>>

\* the run rejects with the error
GenRejects(message) == genPc' = "rejected" /\ genError' = message

\* # 0. the parameters: without a token in the call and in the environment
\* the run throws, otherwise findEnotecaRecordId is awaited
GenerationCalled ==
  /\ genPc = "called"
  /\ IF Truthy(accessToken) THEN genPc' = "findEnoteca" /\ UNCHANGED genError
     ELSE GenRejects(<<"ERROR: access_token is required. Please set AIRTABLE_API_KEY or AIRTABLE_AUTH_TOKEN environment variable">>)
  /\ UNCHANGED <<genArgs, genData, enotecaRecordId, enotecaData, yamlString, genTemp, GenUnchanged>>

\* # 1. findEnotecaRecordId settles: the id of the record whose Nome is the
\* enoteca, undefined when no record has it (its loop ends on a bare return),
\* or a rejection.  The value is assigned before it is tested; the error of
\* nothing found is thrown inside the try, and the catch throws its own for both
FindEnotecaSettles ==
  /\ genPc = "findEnoteca"
  /\ \E found \in {Str("recE1"), Undefined, [k |-> "rejected"]} :
       IF found.k = "rejected"
         THEN /\ GenRejects(<<"ERROR: Error finding enoteca record ID">>)
              /\ UNCHANGED enotecaRecordId
       ELSE /\ enotecaRecordId' = found
            /\ IF Truthy(found) THEN genPc' = "fetchRecords" /\ UNCHANGED genError
               ELSE GenRejects(<<"ERROR: Error finding enoteca record ID">>)
  /\ UNCHANGED <<genArgs, genData, enotecaData, yamlString, genTemp, GenUnchanged>>

\* a record of the inventory without a producer, in the zone whose name is
\* held in a list
UnattributedFields ==
  [key \in DOMAIN BasePipeFields \ {"Produttore"} |->
     IF key = "Zona" THEN Arr(<<Str("recZ4")>>) ELSE BasePipeFields[key]]

\* the inventories the request can resolve to: no record, an entry that is
\* null, and two records
GenInventories ==
  { Obj(("records" :> Arr(<<>>))),
    Obj(("records" :> Arr(<<Null>>))),
    PipeInput(<<UnattributedFields, UnattributedFields>>) }

\* # 3. data = await fetchDefaultTableRecords(...) settles
FetchRecordsSettles ==
  /\ genPc = "fetchRecords"
  /\ \/ GenRejects(<<"ERROR: Error fetching data from Airtable">>) /\ UNCHANGED genData
     \/ \E data \in GenInventories :
          genData' = data /\ genPc' = "getEnotecaData" /\ UNCHANGED genError
  /\ UNCHANGED <<genArgs, enotecaRecordId, enotecaData, yamlString, genTemp, GenUnchanged>>

\* the record of a venue: its name, its logo and its QR code, each of which
\* the record may lack (Airtable leaves out a field that is empty)
VenueRecord(name, lacking) ==
  LET fields == ("Nome" :> Str(name))
                @@ ("Logo" :> Arr(<<Obj(("url" :> Str("https://cdn.example/logo.png")))>>))
                @@ ("QR Code" :> Arr(<<Obj(("url" :> Str("https://cdn.example/qr.png")))>>))
                @@ ("URL Menu Digitale" :> Str("https://menu.example/"))
  IN Obj(("id" :> Str("recE1"))
         @@ ("fields" :> Obj([x \in (DOMAIN fields) \ lacking |-> fields[x]])))

\* TypeError: Cannot read properties of undefined (reading '<key>')
CannotReadOfUndefined(key) ==
  <<"Cannot read properties of undefined (reading '", key, "')">>

\* const enotecaData = { id, name, description, logo_url, qr_image_url,
\* digital_menu_url }, the properties being evaluated in this order: the
\* object, or the message of the TypeError of the first field that is read
\* and is not there
enotecaDataOf(rawEnotecaData) ==
  LET fields == rawEnotecaData.p["fields"].p
  IN IF Prop(fields, "Nome") = Undefined
       THEN [thrown |-> TRUE, message |-> CannotReadOfUndefined("toLowerCase")]
     ELSE IF Prop(fields, "Logo") = Undefined \/ Prop(fields, "QR Code") = Undefined
       THEN [thrown |-> TRUE, message |-> CannotReadOfUndefined("0")]
     ELSE [thrown |-> FALSE,
           data |-> Obj(("id" :> Str(enotecaIdOf(fields["Nome"].s)))
                        @@ ("name" :> fields["Nome"])
                        @@ ("description" :> Prop(fields, "Introduzione"))
                        @@ ("logo_url" :> fields["Logo"].a[1].p["url"])
                        @@ ("qr_image_url" :> fields["QR Code"].a[1].p["url"])
                        @@ ("digital_menu_url" :> Prop(fields, "URL Menu Digitale")))]

\* the message of a response of Airtable that is not ok and has no message
\* of its own
RequestFailed == <<"Airtable request failed (", "503", " ", "Service Unavailable", ")">>

\* the text of the document: the run reads nothing in it, and it stands
\* here as a string that tells a document without wines from one with wines
fullYamlString(validated) ==
  Str(IF validated = <<>> THEN "wines: []" ELSE "wines: [...]")

\* what generateWineListYamlString resolves to: an object of the document
\* and the three lists of records, not the string of the document
generatedWineList(result) ==
  Obj(("fullYamlString" :> fullYamlString(result.validRecords))
      @@ ("validRecords" :> Arr(result.validRecords))
      @@ ("warningRecords" :> Arr(result.warningRecords))
      @@ ("invalidRecords" :> Arr(result.invalidRecords)))

\* the message of new Error({ msg: ..., ... }): the object is converted to a
\* string
ObjectObject == <<"[object Object]">>

\* the TypeError of record.id in the cleaner, for an entry that is null or
\* undefined
CannotReadIdOf(record) ==
  <<"Cannot read properties of ", IF record.k = "null" THEN "null" ELSE "undefined",
    " (reading 'id')">>

\* the first entry of the inventory the cleaner throws on
firstUnreadable(records) ==
  records[CHOOSE p \in 1..Len(records) :
            /\ records[p].k \in {"undef", "null"}
            /\ \A q \in 1..(p - 1) : records[q].k \notin {"undef", "null"}]

\* generateWineListYamlString(data, enotecaData) is called: # 0. the cleaner
\* throws on an entry that is null or undefined; # 1. getZoneMapping is
\* called, which reads its token from AIRTABLE_AUTH_TOKEN alone: without it
\* fetchDefaultTableRecords throws before any request and getZoneMapping
\* wraps the error in new Error({...}); with it the request of the zones is
\* awaited
generateCalled ==
  IF wineDataCleaner(genData) = CannotReadId
    THEN GenRejects(CannotReadIdOf(firstUnreadable(recordsOf(genData))))
  ELSE IF ~Truthy(genArgs.AIRTABLE_AUTH_TOKEN) THEN GenRejects(ObjectObject)
  ELSE genPc' = "zones" /\ UNCHANGED genError

\* # 4. getEnotecaData settles: its rejection is the rejection of the run;
\* on the record it resolves to enotecaData is built, which throws when the
\* record lacks Nome, Logo or QR Code; generateWineListYamlString is called
\* with it
GetEnotecaDataSettles ==
  /\ genPc = "getEnotecaData"
  /\ \/ GenRejects(RequestFailed) /\ UNCHANGED enotecaData
     \/ \E lacking \in {{}, {"Nome"}, {"Logo"}, {"QR Code"}, {"Logo", "QR Code"}} :
          \E built \in {enotecaDataOf(VenueRecord(genArgs.enoteca, lacking))} :
            IF built.thrown THEN GenRejects(built.message) /\ UNCHANGED enotecaData
            ELSE enotecaData' = built.data /\ generateCalled
  /\ UNCHANGED <<genArgs, genData, enotecaRecordId, yamlString, genTemp, GenUnchanged>>

\* # 3, # 4. the validation settles: its catch throws new Error({...});
\* without an error the object of the document and the lists is returned
generateValidated(result) ==
  IF result.thrown THEN [rejected |-> TRUE, message |-> ObjectObject]
  ELSE [rejected |-> FALSE, value |-> generatedWineList(result)]

\* # 2. the sorter returns, and the validation follows, or it throws the
\* TypeError of compare
generateSorted(sorted, zm) ==
  IF sorted.threw THEN [rejected |-> TRUE, message |-> <<NotAFunction.msg>>]
  ELSE generateValidated(wineDataValidationAndNormalization(sorted.data, zm))

\* the cleaned records as the sorter reads them
cleanedData(data) ==
  [p \in 1..Len(wineDataCleaner(data).a) |-> recordOf(wineDataCleaner(data).a[p])]

\* the request of getZoneMapping settles.  A failure is wrapped in
\* new Error({...}).  On an answer the mapping is built, the records are
\* sorted and validated (no record of the inventories has a producer to look
\* up, so the validation awaits no request) and the object is returned:
\* writeFileAtomicSafe is called with data: yamlString, its checks of baseDir
\* and relativePath pass, and fs.mkdir(dir) is awaited
ZoneMappingSettles ==
  /\ genPc = "zones"
  /\ \E zones \in PipeZoneResponses :
       IF ~zones.ok THEN GenRejects(ObjectObject) /\ UNCHANGED yamlString
       ELSE \E zm \in {getZoneMapping(zones.data)}, cleaned \in {cleanedData(genData)} :
              \E settled \in {generateSorted(wineDataSorter(cleaned, zm), zm)} :
                IF settled.rejected THEN GenRejects(settled.message) /\ UNCHANGED yamlString
                ELSE yamlString' = settled.value /\ genPc' = "mkdir" /\ UNCHANGED genError
  /\ UNCHANGED <<genArgs, genData, enotecaRecordId, enotecaData, genTemp, GenUnchanged>>

\* the error the catch of the directory checks throws for the error it caught
YamlDirRefused(message) ==
  <<"Error checking directory, dir is not a directory or is not writable: ", message>>

\* in writeFileAtomicSafe, fs.mkdir(dir, { recursive: true }) settles;
\* fs.stat(dir) is awaited next
YamlMkdirSettles ==
  /\ genPc = "mkdir"
  /\ \E ok \in BOOLEAN :
       IF ok THEN genPc' = "stat" /\ UNCHANGED genError
       ELSE GenRejects(YamlDirRefused("EACCES"))
  /\ UNCHANGED <<genArgs, genData, enotecaRecordId, enotecaData, yamlString, genTemp, GenUnchanged>>

\* fs.stat(dir) settles; for a path that is no directory the error built
\* reads `error`, which is not defined inside the try
YamlStatSettles ==
  /\ genPc = "stat"
  /\ \E stat \in {"directory", "file", "refused"} :
       IF stat = "directory" THEN genPc' = "access" /\ UNCHANGED genError
       ELSE GenRejects(YamlDirRefused(IF stat = "file" THEN "error is not defined"
                                      ELSE "EACCES"))
  /\ UNCHANGED <<genArgs, genData, enotecaRecordId, enotecaData, yamlString, genTemp, GenUnchanged>>

\* fs.access(dir, constants.W_OK) settles; fs.open(tmpPath, "wx") is awaited
\* next
YamlAccessSettles ==
  /\ genPc = "access"
  /\ \E ok \in BOOLEAN :
       IF ok THEN genPc' = "openTemp" /\ UNCHANGED genError
       ELSE GenRejects(YamlDirRefused("EACCES"))
  /\ UNCHANGED <<genArgs, genData, enotecaRecordId, enotecaData, yamlString, genTemp, GenUnchanged>>

\* fs.open(tmpPath, "wx") settles.  When it rejects, the catch has no handle
\* to close and awaits fs.unlink.  When it resolves, the empty temporary file
\* is there and the data is checked: a string is written with fh.write; any
\* other value throws, and the catch awaits fh.close().  genError holds the
\* error caught, which is thrown again after the cleanup
YamlTempOpened ==
  /\ genPc = "openTemp"
  /\ \E ok \in BOOLEAN :
       IF ~ok THEN genPc' = "unlinkTemp" /\ genError' = <<"EACCES">> /\ UNCHANGED genTemp
       ELSE /\ genTemp' = Str("")
            /\ IF isWritable(yamlString) THEN genPc' = "write" /\ UNCHANGED genError
               ELSE /\ genPc' = "closeTemp"
                    /\ genError' = <<"data must be string, Buffer, or Uint8Array.">>
  /\ UNCHANGED <<genArgs, genData, enotecaRecordId, enotecaData, yamlString, GenUnchanged>>

\* in the catch, fh.close() settles: its rejection is logged, and fs.unlink
\* is awaited either way
YamlTempClosed ==
  /\ genPc = "closeTemp"
  /\ genPc' = "unlinkTemp"
  /\ UNCHANGED <<genArgs, genData, enotecaRecordId, enotecaData, yamlString, genTemp, genError,
                 GenUnchanged>>

\* in the catch, fs.unlink(tmpPath) settles: the temporary file is removed,
\* or the rejection is logged and the file stays; the error caught is thrown
\* again and the run rejects with it
YamlTempUnlinked ==
  /\ genPc = "unlinkTemp"
  /\ \E unlinked \in BOOLEAN : genTemp' = IF unlinked THEN Undefined ELSE genTemp
  /\ genPc' = "rejected"
  /\ UNCHANGED <<genArgs, genData, enotecaRecordId, enotecaData, yamlString, genError, GenUnchanged>>

NextGenerate ==
  \/ GenerationCalled
  \/ FindEnotecaSettles
  \/ FetchRecordsSettles
  \/ GetEnotecaDataSettles
  \/ ZoneMappingSettles
  \/ YamlMkdirSettles
  \/ YamlStatSettles
  \/ YamlAccessSettles
  \/ YamlTempOpened
  \/ YamlTempClosed
  \/ YamlTempUnlinked

SpecGenerate == InitGenerate /\ [][NextGenerate]_vars

(***************************************************************************)
(* The paginated fetch: fetchDefaultTableRecords (airtableIndex.js:331-401) *)
(* and the listRecords request it awaits (airtableApi.js:345-362)          *)
(***************************************************************************)
\* Mutant: the cursor of the previous page is not put in the request
requestParamsWithoutOffset(params, offset) ==
  IF ~Truthy(Prop(params, "pageSize")) THEN Put(params, "pageSize", Num(100)) ELSE params

\* const requestParams = { ...params }; the offset is set when there is one,
\* pageSize defaults to 100
requestParams(params, offset) ==
  LET withOffset == IF Truthy(offset) THEN Put(params, "offset", offset) ELSE params
  IN IF ~Truthy(Prop(withOffset, "pageSize")) THEN Put(withOffset, "pageSize", Num(100))
     ELSE withOffset

\* result.records || []
pageRecords(result) ==
  IF Truthy(Prop(result.p, "records")) THEN result.p["records"].a ELSE <<>>

\* result.offset || null
nextOffset(result) ==
  IF Truthy(Prop(result.p, "offset")) THEN result.p["offset"] ELSE Null

\* the first of the three checks of the configuration that fails, <<>> if none
missingConfig(config) ==
  IF ~Truthy(config.authToken) THEN <<"AIRTABLE_AUTH_TOKEN (env or override) is required">>
  ELSE IF ~Truthy(config.baseId) THEN <<"AIRTABLE_BASE_ID (env or override) is required">>
  ELSE IF ~Truthy(config.tableIdOrName)
    THEN <<"AIRTABLE_INV_TAB_ID (env or override) is required">>
  ELSE <<>>

\* the cap on the pages of one run
MaxPages == 4

\* The record source answers a request by its cursor: "" is the request
\* without an offset.
Cursors == {"", "itr1", "itr2"}

RecordsOfPage == ("" :> <<Str("rec1"), Str("rec2")>>) @@ ("itr1" :> <<Str("rec3")>>)
                 @@ ("itr2" :> <<Str("rec4")>>)

OffsetShapes == {Undefined, Null, Str(""), Str("itr1"), Str("itr2")}

\* how a page is answered: the request fails, or a body with or without
\* `records` and with or without `offset`
PageShapes ==
  {[ok |-> FALSE]} \cup [ok : {TRUE}, hasRecords : BOOLEAN, offset : OffsetShapes]

pageBody(shape, cursor) ==
  Obj((IF shape.hasRecords THEN ("records" :> Arr(RecordsOfPage[cursor])) ELSE <<>>)
      @@ (IF shape.offset # Undefined THEN ("offset" :> shape.offset) ELSE <<>>))

cursorOf(request) == IF "offset" \in DOMAIN request THEN ToStr(request["offset"]) ELSE ""

\* what airtableRequest settles with for the request in flight
ReplyInFlight ==
  LET cursor == cursorOf(fetchRequests[Len(fetchRequests)])
  IN IF fetchSource[cursor].ok
       THEN [ok |-> TRUE, result |-> pageBody(fetchSource[cursor], cursor)]
     ELSE [ok |-> FALSE]

FetchParamSets ==
  { <<>>, ("filterByFormula" :> Str("{in_carta_vini}=TRUE()")) @@ ("pageSize" :> Num(50)) }

FetchConfigs ==
  { [authToken |-> a, baseId |-> b, tableIdOrName |-> t] :
      a \in {Str("pat"), Undefined}, b \in {Str("app1"), Undefined},
      t \in {Str("tblInv"), Undefined} }

InitFetch ==
  /\ fetchParams \in FetchParamSets
  /\ fetchConfig \in FetchConfigs
  /\ fetchSource \in [Cursors -> PageShapes]
  /\ fetchPc = "called"
  /\ fetchOffset = Null
  /\ allRecords = <<>>
  /\ pageCount = 0
  /\ fetchRequests = <<>>
  /\ fetchReplies = <<>>
  /\ fetchResult = Undefined
  /\ SortIdle
  /\ ValIdle
  /\ PubIdle
  /\ CleanIdle
  /\ ZoneIdle
  /\ GenIdle
  /\ PipeIdle
  /\ WriteIdle
  /\ WorkerIdle

FetchUnchanged == <<sortVars, valVars, pubVars, cleanVars, zoneVars, genVars, pipeVars, writeVars, workerVars>>

\* The checks of the configuration, then the first pass of the loop calls
\* listRecords
FetchCalled ==
  /\ fetchPc = "called"
  /\ IF missingConfig(fetchConfig) # <<>>
       THEN fetchPc' = "rejected" /\ UNCHANGED fetchRequests
     ELSE /\ fetchPc' = "requesting"
          /\ fetchRequests' = <<requestParams(fetchParams, fetchOffset)>>
  /\ UNCHANGED <<fetchParams, fetchConfig, fetchSource, fetchOffset, allRecords, pageCount,
                 fetchReplies, fetchResult, FetchUnchanged>>

\* listRecords resolves: the records of the page are pushed, and the loop
\* calls listRecords again while the page carries an offset
PageResolved ==
  /\ fetchPc = "requesting"
  /\ pageCount < MaxPages
  /\ ReplyInFlight.ok
  /\ LET result == ReplyInFlight.result IN
       /\ fetchReplies' = Append(fetchReplies, result)
       /\ allRecords' = allRecords \o pageRecords(result)
       /\ pageCount' = pageCount + 1
       /\ fetchOffset' = nextOffset(result)
       /\ IF Truthy(nextOffset(result))
            THEN /\ fetchRequests' = Append(fetchRequests,
                                            requestParams(fetchParams, nextOffset(result)))
                 /\ UNCHANGED <<fetchPc, fetchResult>>
          ELSE /\ fetchPc' = "returned"
               /\ fetchResult' = Obj(("records" :> Arr(allRecords \o pageRecords(result))))
               /\ UNCHANGED fetchRequests
  /\ UNCHANGED <<fetchParams, fetchConfig, fetchSource, FetchUnchanged>>

\* listRecords rejects: the error leaves the loop and the call
PageRejected ==
  /\ fetchPc = "requesting"
  /\ pageCount < MaxPages
  /\ ~ReplyInFlight.ok
  /\ fetchPc' = "rejected"
  /\ UNCHANGED <<fetchParams, fetchConfig, fetchSource, fetchOffset, allRecords, pageCount,
                 fetchRequests, fetchReplies, fetchResult, FetchUnchanged>>

NextFetch ==
  \/ FetchCalled
  \/ PageResolved
  \/ PageRejected

SpecFetch == InitFetch /\ [][NextFetch]_vars

\* an awaited request settles: the event loop runs the continuation
SpecFetchFair == SpecFetch /\ WF_vars(PageResolved) /\ WF_vars(PageRejected)

(***************************************************************************)
(* The atomic write: writeFileAtomicSafe (generation-handler.js)           *)
(***************************************************************************)
\* The path strings of the calls, split at the separators
SegmentsOf ==
  ("/app/data/menu" :> [abs |-> TRUE, segs |-> <<"app", "data", "menu">>])
  @@ ("data/menu" :> [abs |-> FALSE, segs |-> <<"data", "menu">>])
  @@ ("venue.yaml" :> [abs |-> FALSE, segs |-> <<"venue.yaml">>])
  @@ ("../venue.yaml" :> [abs |-> FALSE, segs |-> <<"..", "venue.yaml">>])
  @@ ("/etc/venue.yaml" :> [abs |-> TRUE, segs |-> <<"etc", "venue.yaml">>])

\* path.isAbsolute
isAbsolute(s) == SegmentsOf[s].abs

\* path.normalize: a ".." takes away the segment before it; at the start of
\* a relative path it stays
RECURSIVE normalizeFrom(_, _, _, _)
normalizeFrom(acc, segs, i, abs) ==
  IF i > Len(segs) THEN acc
  ELSE IF segs[i] = ".."
    THEN IF Len(acc) > 0 /\ acc[Len(acc)] # ".."
           THEN normalizeFrom(SubSeq(acc, 1, Len(acc) - 1), segs, i + 1, abs)
         ELSE IF abs THEN normalizeFrom(acc, segs, i + 1, abs)
         ELSE normalizeFrom(Append(acc, ".."), segs, i + 1, abs)
  ELSE normalizeFrom(Append(acc, segs[i]), segs, i + 1, abs)

normalize(path) == [abs |-> path.abs, segs |-> normalizeFrom(<<>>, path.segs, 1, path.abs)]

\* .replace(/^(\.\.(\/|\\|$))+/, ""): the ".." segments a relative path
\* begins with are taken away
RECURSIVE stripLeadingDotDot(_)
stripLeadingDotDot(segs) ==
  IF Len(segs) > 0 /\ segs[1] = ".." THEN stripLeadingDotDot(Tail(segs)) ELSE segs

safeRelOf(relativePath) ==
  LET n == normalize(SegmentsOf[relativePath])
  IN IF n.abs THEN n ELSE [abs |-> FALSE, segs |-> stripLeadingDotDot(n.segs)]

\* path.resolve(absBase, safeRel)
resolve(base, rel) ==
  IF rel.abs THEN normalize(rel)
  ELSE normalize([abs |-> TRUE, segs |-> base.segs \o rel.segs])

\* absTarget.startsWith(absBase)
startsWith(target, base) ==
  /\ Len(base.segs) <= Len(target.segs)
  /\ SubSeq(target.segs, 1, Len(base.segs)) = base.segs

absTargetOf(args) ==
  resolve(normalize(SegmentsOf[args.baseDir.s]), safeRelOf(args.relativePath.s))

\* the input checks: the message of the error thrown, <<>> if none
invalidWriteArgs(args) ==
  IF ~Truthy(args.baseDir) \/ args.baseDir.k # "str" \/ ~isAbsolute(args.baseDir.s)
    THEN <<"Invalid baseDir: must be a valid absolute path">>
  ELSE IF ~Truthy(args.relativePath) \/ args.relativePath.k # "str"
    THEN <<"Invalid relativePath: must be a valid string">>
  ELSE IF ~startsWith(absTargetOf(args), normalize(SegmentsOf[args.baseDir.s]))
    THEN <<"Invalid relativePath: target path escapes baseDir">>
  ELSE <<>>

\* overwrite = true when the argument is not given
overwriteOf(args) == IF args.overwrite = Undefined THEN TRUE ELSE args.overwrite.b

\* Buffer.byteLength(data)
ByteLength == ("" :> 0) @@ ("wines: []" :> 9)

\* if (!overwrite) { try { await fs.access(absTarget); throw new Error(...) }
\* catch {} }: the error thrown for a target that exists, like the rejection
\* of fs.access for one that does not, ends in the empty catch; what leaves
\* the block is no error
noOverwriteCheck(overwrite, target) ==
  LET thrownInTry == IF overwrite THEN <<>>
                     ELSE IF target # Undefined
                       THEN <<"Target already exists (overwrite=false).">>
                     ELSE <<"ENOENT">>
      caught == thrownInTry
  IN SelectSeq(thrownInTry, LAMBDA e : e \notin {caught[p] : p \in 1..Len(caught)})

WfBaseDirs == {Str("/app/data/menu"), Str("data/menu"), Undefined}

WfRelativePaths == {Str("venue.yaml"), Str("../venue.yaml"), Str("/etc/venue.yaml"), Undefined}

WfData == {Str("wines: []"), Str(""), Num(5)}

WfArgSets ==
  [baseDir : WfBaseDirs, relativePath : WfRelativePaths, data : WfData,
   overwrite : {Bool(TRUE), Bool(FALSE), Undefined}]

InitWrite ==
  /\ wfArgs \in WfArgSets
  /\ wfPc = "called"
  /\ fsTarget \in {Undefined, Str("old")}
  /\ targetBefore = fsTarget
  /\ fsTemp = Undefined
  /\ wfResult = Undefined
  /\ wfError = <<>>
  /\ SortIdle
  /\ ValIdle
  /\ PubIdle
  /\ CleanIdle
  /\ ZoneIdle
  /\ GenIdle
  /\ PipeIdle
  /\ FetchIdle
  /\ WorkerIdle

WriteUnchanged ==
  <<sortVars, valVars, pubVars, cleanVars, zoneVars, genVars, pipeVars, fetchVars, workerVars>>

\* an error thrown inside the try of the write is caught: the catch awaits
\* fh.close() when the handle is open (`if (fh) await fh.close()`) and
\* fs.unlink(tmpPath) otherwise; wfError holds the error caught, which is
\* thrown again after the cleanup
Caught(error, fh) ==
  /\ wfPc' = IF fh THEN "catch close" ELSE "catch unlink"
  /\ wfError' = error

\* the checks of baseDir and relativePath, then fs.mkdir(dir) is awaited
WriteCalled ==
  /\ wfPc = "called"
  /\ IF invalidWriteArgs(wfArgs) # <<>>
       THEN wfPc' = "rejected" /\ wfError' = invalidWriteArgs(wfArgs)
     ELSE wfPc' = "mkdir" /\ UNCHANGED wfError
  /\ UNCHANGED <<wfArgs, fsTarget, fsTemp, targetBefore, wfResult, WriteUnchanged>>

\* the error the catch of the directory checks throws for the error it caught
DirRefused(message) ==
  <<"Error checking directory, dir is not a directory or is not writable: ", message>>

\* fs.mkdir(dir, { recursive: true }) settles; fs.stat(dir) is awaited next
MkdirSettles ==
  /\ wfPc = "mkdir"
  /\ \E ok \in BOOLEAN :
       IF ok THEN wfPc' = "stat" /\ UNCHANGED wfError
       ELSE wfPc' = "rejected" /\ wfError' = DirRefused("EACCES")
  /\ UNCHANGED <<wfArgs, fsTarget, fsTemp, targetBefore, wfResult, WriteUnchanged>>

\* fs.stat(dir) settles.  For a path that is no directory the code builds
\* new Error("Invalid baseDir: must be a directory", { ..., error: error }),
\* and `error` is not defined inside the try: the ReferenceError is what the
\* catch gets
StatSettles ==
  /\ wfPc = "stat"
  /\ \E stat \in {"directory", "file", "refused"} :
       IF stat = "directory" THEN wfPc' = "access" /\ UNCHANGED wfError
       ELSE /\ wfPc' = "rejected"
            /\ wfError' = DirRefused(IF stat = "file" THEN "error is not defined" ELSE "EACCES")
  /\ UNCHANGED <<wfArgs, fsTarget, fsTemp, targetBefore, wfResult, WriteUnchanged>>

\* fs.access(dir, constants.W_OK) settles; fs.open(tmpPath, "wx") is awaited
\* next
AccessSettles ==
  /\ wfPc = "access"
  /\ \E ok \in BOOLEAN :
       IF ok THEN wfPc' = "open" /\ UNCHANGED wfError
       ELSE wfPc' = "rejected" /\ wfError' = DirRefused("EACCES")
  /\ UNCHANGED <<wfArgs, fsTarget, fsTemp, targetBefore, wfResult, WriteUnchanged>>

\* fs.open(tmpPath, "wx") settles.  When it rejects there is no handle.  When
\* it resolves the empty temporary file is there and the data is checked: a
\* string is handed to fh.write, any other value throws with the handle open
TempOpened ==
  /\ wfPc = "open"
  /\ \E ok \in BOOLEAN :
       IF ~ok THEN Caught(<<"EACCES">>, FALSE) /\ UNCHANGED fsTemp
       ELSE /\ fsTemp' = Str("")
            /\ IF isWritable(wfArgs.data) THEN wfPc' = "write" /\ UNCHANGED wfError
               ELSE Caught(<<"data must be string, Buffer, or Uint8Array.">>, TRUE)
  /\ UNCHANGED <<wfArgs, fsTarget, targetBefore, wfResult, WriteUnchanged>>

\* what fh.write can leave in the file when it resolves: the whole data, or
\* the bytes written before the file system took no more
WrittenOf(data) ==
  {data} \cup (IF data = Str("wines: []") THEN {Str("wine")} ELSE {})

\* fh.write(data) settles: the write is refused, or it resolves and fh.sync
\* is awaited; the bytesWritten it resolves to is not read, so the temporary
\* file holds the data or only a first part of it
TempWritten ==
  /\ wfPc = "write"
  /\ \E ok \in BOOLEAN :
       IF ~ok THEN Caught(<<"EIO">>, TRUE) /\ UNCHANGED fsTemp
       ELSE /\ wfPc' = "sync"
            /\ \E written \in WrittenOf(wfArgs.data) : fsTemp' = written
            /\ UNCHANGED wfError
  /\ UNCHANGED <<wfArgs, fsTarget, targetBefore, wfResult, WriteUnchanged>>

\* fh.sync() settles; fh.close() is awaited next
TempSynced ==
  /\ wfPc = "sync"
  /\ \E ok \in BOOLEAN :
       IF ok THEN wfPc' = "close" /\ UNCHANGED wfError
       ELSE Caught(<<"EIO">>, TRUE)
  /\ UNCHANGED <<wfArgs, fsTarget, fsTemp, targetBefore, wfResult, WriteUnchanged>>

\* fh.close() settles.  When it rejects fh is still set, and the catch closes
\* the handle again.  When it resolves fh = undefined, and fs.access(absTarget)
\* is awaited if overwrite is false, fs.rename if not
TempClosed ==
  /\ wfPc = "close"
  /\ \E ok \in BOOLEAN :
       IF ~ok THEN Caught(<<"EIO">>, TRUE)
       ELSE /\ wfPc' = IF overwriteOf(wfArgs) THEN "rename" ELSE "probe"
            /\ UNCHANGED wfError
  /\ UNCHANGED <<wfArgs, fsTarget, fsTemp, targetBefore, wfResult, WriteUnchanged>>

\* with overwrite false, fs.access(absTarget) settles: what leaves the
\* try/catch around it is no error, and fs.rename is awaited
TargetProbed ==
  /\ wfPc = "probe"
  /\ IF noOverwriteCheck(overwriteOf(wfArgs), fsTarget) # <<>>
       THEN Caught(noOverwriteCheck(overwriteOf(wfArgs), fsTarget), FALSE)
     ELSE wfPc' = "rename" /\ UNCHANGED wfError
  /\ UNCHANGED <<wfArgs, fsTarget, fsTemp, targetBefore, wfResult, WriteUnchanged>>

\* fs.rename(tmpPath, absTarget) settles; fs.open(dir, "r") is awaited next
Renamed ==
  /\ wfPc = "rename"
  /\ \E ok \in BOOLEAN :
       IF ok THEN /\ fsTarget' = fsTemp
                  /\ fsTemp' = Undefined
                  /\ wfPc' = "dir open"
                  /\ UNCHANGED wfError
       ELSE Caught(<<"EXDEV">>, FALSE) /\ UNCHANGED <<fsTarget, fsTemp>>
  /\ UNCHANGED <<wfArgs, targetBefore, wfResult, WriteUnchanged>>

\* the error the catch around the sync of the directory throws into the outer
\* catch for the error it caught
DirSyncRefused(message) == <<"Error fsyncing directory: ", message>>

\* fs.open(dir, "r") settles; d.sync() is awaited next
DirOpened ==
  /\ wfPc = "dir open"
  /\ \E ok \in BOOLEAN :
       IF ok THEN wfPc' = "dir sync" /\ UNCHANGED wfError
       ELSE Caught(DirSyncRefused("EISDIR"), FALSE)
  /\ UNCHANGED <<wfArgs, fsTarget, fsTemp, targetBefore, wfResult, WriteUnchanged>>

\* d.sync() settles; d.close() is awaited next
DirSynced ==
  /\ wfPc = "dir sync"
  /\ \E ok \in BOOLEAN :
       IF ok THEN wfPc' = "dir close" /\ UNCHANGED wfError
       ELSE Caught(DirSyncRefused("EIO"), FALSE)
  /\ UNCHANGED <<wfArgs, fsTarget, fsTemp, targetBefore, wfResult, WriteUnchanged>>

\* d.close() settles; fs.access(tmpPath) is awaited next
DirClosed ==
  /\ wfPc = "dir close"
  /\ \E ok \in BOOLEAN :
       IF ok THEN wfPc' = "temp probe" /\ UNCHANGED wfError
       ELSE Caught(DirSyncRefused("EIO"), FALSE)
  /\ UNCHANGED <<wfArgs, fsTarget, fsTemp, targetBefore, wfResult, WriteUnchanged>>

\* fs.access(tmpPath) settles: the rename took the temporary file away, the
\* access rejects, the catch around it ignores the rejection, and the call
\* returns the path and the size of the data
TempProbed ==
  /\ wfPc = "temp probe"
  /\ fsTemp = Undefined
  /\ wfPc' = "returned"
  /\ wfResult' = [absPath |-> absTargetOf(wfArgs), bytes |-> ByteLength[wfArgs.data.s]]
  /\ UNCHANGED <<wfArgs, fsTarget, fsTemp, targetBefore, wfError, WriteUnchanged>>

\* in the outer catch, fh.close() settles: its rejection is logged, and
\* fs.unlink(tmpPath) is awaited either way
HandleClosed ==
  /\ wfPc = "catch close"
  /\ wfPc' = "catch unlink"
  /\ UNCHANGED <<wfArgs, fsTarget, fsTemp, targetBefore, wfResult, wfError, WriteUnchanged>>

\* in the outer catch, fs.unlink(tmpPath) settles: the temporary file is
\* removed, or the rejection is logged and the file stays; the error caught
\* is thrown again and the call rejects with it
TempUnlinked ==
  /\ wfPc = "catch unlink"
  /\ \E unlinked \in BOOLEAN : fsTemp' = IF unlinked THEN Undefined ELSE fsTemp
  /\ wfPc' = "rejected"
  /\ UNCHANGED <<wfArgs, fsTarget, targetBefore, wfResult, wfError, WriteUnchanged>>

NextWrite ==
  \/ WriteCalled
  \/ MkdirSettles
  \/ StatSettles
  \/ AccessSettles
  \/ TempOpened
  \/ TempWritten
  \/ TempSynced
  \/ TempClosed
  \/ TargetProbed
  \/ Renamed
  \/ DirOpened
  \/ DirSynced
  \/ DirClosed
  \/ TempProbed
  \/ HandleClosed
  \/ TempUnlinked

SpecWrite == InitWrite /\ [][NextWrite]_vars

(***************************************************************************)
(* The HTTP entry: wineListController and wineListWorker (worker.js), and  *)
(* the parameters startGeneration takes from the call                      *)
(* (generation-handler.js)                                                 *)
(***************************************************************************)
\* the strings of the requests that match the pattern of each parameter:
\* /^rec[a-zA-Z0-9]{14}$/, /^app[a-zA-Z0-9]{14}$/, /^tbl[a-zA-Z0-9]{14}$/,
\* /^fld[a-zA-Z0-9]+$/
MatchesPattern ==
  [enotecaId |-> {"recVenueDueMari01", "recVenuePancia001"},
   base_id |-> {"appBase0000000001"},
   table_id |-> {"tblInventory00001"},
   wine_list_tab_id |-> {"tblWineLists00001"},
   enoteca_table_id |-> {"tblEnoteche000001"},
   out_tab_id |-> {"tblWineLists00001"},
   out_field_id |-> {"fldPdf1"}]

PatternedParams == DOMAIN MatchesPattern

RequestParams == PatternedParams \cup {"access_token"}

\* the keys of paramError
paramErrorsOf(params) ==
  {key \in RequestParams :
     \/ ~Truthy(Prop(params, key))
     \/ key \in PatternedParams /\ ToStr(params[key]) \notin MatchesPattern[key]}

\* the object literal wineListWorker calls startGeneration with
startGenerationCall(params) ==
  [key \in {"enotecaId", "access_token", "base_id", "table_id", "wine_list_tab_id",
            "enoteca_table_id", "out_tab_id", "out_field_id"} |-> Prop(params, key)]

\* a destructured parameter with a default: the default stands in when the
\* property is undefined
Destructured(call, key, default) ==
  IF Prop(call, key) = Undefined THEN default ELSE call[key]

\* enoteca = "Porgi l'Altra Pancia" in the parameter list of startGeneration
enotecaOf(call) == Destructured(call, "enoteca", Str("Porgi l'Altra Pancia"))

GivenOrLeftOut(key, values) == {(key :> v) : v \in values} \cup {<<>>}

MergedBodies(a, b) == {x @@ y : x \in a, y \in b}

RequestBodies ==
  MergedBodies(GivenOrLeftOut("enotecaId", {Str("recVenueDueMari01"), Str("recVenuePancia001"),
                                            Str("rec1")}),
  MergedBodies(GivenOrLeftOut("access_token", {Str("patToken")}),
  MergedBodies(GivenOrLeftOut("base_id", {Str("appBase0000000001"), Str("base")}),
  MergedBodies(GivenOrLeftOut("table_id", {Str("tblInventory00001")}),
  MergedBodies({("wine_list_tab_id" :> Str("tblWineLists00001"))},
  MergedBodies({("enoteca_table_id" :> Str("tblEnoteche000001"))},
  MergedBodies(GivenOrLeftOut("out_tab_id", {Str("tblWineLists00001")}),
               GivenOrLeftOut("out_field_id", {Str("fldPdf1")}))))))))

InitWorker ==
  /\ reqBody \in RequestBodies
  /\ workerPc = "received"
  /\ paramError = {}
  /\ generationCall = Undefined
  /\ generationEnoteca = Undefined
  /\ httpStatus = 0
  /\ SortIdle
  /\ ValIdle
  /\ PubIdle
  /\ CleanIdle
  /\ ZoneIdle
  /\ GenIdle
  /\ PipeIdle
  /\ FetchIdle
  /\ WriteIdle

WorkerUnchanged ==
  <<sortVars, valVars, pubVars, cleanVars, zoneVars, genVars, pipeVars, fetchVars, writeVars>>

\* * 0. the parameters are checked: a 400 response, or * 1. the worker calls
\* startGeneration, which takes its parameters from the object it is given
ControllerCalled ==
  /\ workerPc = "received"
  /\ paramError' = paramErrorsOf(reqBody)
  /\ IF paramErrorsOf(reqBody) # {}
       THEN /\ httpStatus' = 400
            /\ workerPc' = "responded"
            /\ UNCHANGED <<generationCall, generationEnoteca>>
     ELSE /\ generationCall' = startGenerationCall(reqBody)
          /\ generationEnoteca' = enotecaOf(startGenerationCall(reqBody))
          /\ workerPc' = "generating"
          /\ UNCHANGED httpStatus
  /\ UNCHANGED <<reqBody, WorkerUnchanged>>

\* startGeneration resolves: 200
GenerationResolved ==
  /\ workerPc = "generating"
  /\ httpStatus' = 200
  /\ workerPc' = "responded"
  /\ UNCHANGED <<reqBody, paramError, generationCall, generationEnoteca, WorkerUnchanged>>

\* startGeneration rejects: the worker throws again, the controller answers 500
GenerationRejected ==
  /\ workerPc = "generating"
  /\ httpStatus' = 500
  /\ workerPc' = "responded"
  /\ UNCHANGED <<reqBody, paramError, generationCall, generationEnoteca, WorkerUnchanged>>

NextWorker ==
  \/ ControllerCalled
  \/ GenerationResolved
  \/ GenerationRejected

SpecWorker == InitWorker /\ [][NextWorker]_vars

(***************************************************************************)
(* Properties of the sorter                                                *)
(***************************************************************************)
\* index of the record with this id in a list of records with distinct ids
PosOf(d, id) == CHOOSE p \in 1..Len(d) : d[p].id = id

SameRecords(d, e) ==
  /\ Len(d) = Len(e)
  /\ {d[p] : p \in 1..Len(d)} = {e[p] : p \in 1..Len(e)}

\* the call of the sorter returned
SortReturned == sortPc \in {"sorted", "resorted"}

\* the zone key as an order: -1, 0 or 1, and 2 when comparing the zones throws
ZoneKeyOrder(a, b, zm) ==
  LET order == zoneKeyCompare(a, b, zm)
  IN IF Threw(order) THEN 2 ELSE Sign(order)

\* the result of the first of the five keys, in priority order, on which a and b differ
FirstDecisiveKey(a, b, zm) ==
  LET ks == << tipologiaCompare(a, b), regioneCompare(a, b), ZoneKeyOrder(a, b, zm),
               produttoreCompare(a, b), tieBreakCompare(a, b) >>
      nz == {p \in 1..5 : ks[p] # 0}
  IN IF nz = {} THEN 0 ELSE ks[CHOOSE p \in nz : \A q \in nz : p <= q]

\* two records the comparator throws on: equal in Tipologia and Regione, in
\* zones of one priority, the name of the zone of the first being no string
ThrowsOn(a, b, zm) ==
  /\ tipologiaCompare(a, b) = 0
  /\ regioneCompare(a, b) = 0
  /\ ZoneKeyOrder(a, b, zm) = 2

\* C7: the output holds the input's records ordered lexicographically by
\* Tipologia, Regione, zone, Produttore and the tie-break key: of any two records
\* the earlier one is the smaller on the first key on which they differ, a later
\* key deciding only between records equal on every earlier key.  The call
\* returns no output only when the comparator throws on two of the records.
C7_SortedLexicographically ==
  /\ SortReturned =>
       /\ SameRecords(sortedData, sortData)
       /\ \A p, q \in 1..Len(sortedData) :
            p < q => FirstDecisiveKey(sortedData[p], sortedData[q], sortZoneMapping) <= 0
  /\ sortPc = "threw" =>
       \E p, q \in 1..Len(sortData) :
         p # q /\ ThrowsOn(sortData[p], sortData[q], sortZoneMapping)

\* Tipologia [Bianco, Rosso, Bianco], one Regione: the two Bianco records, which
\* differ in their name only, come first, in the order of their names
C7_Witness ==
  /\ sortPc = "sorted"
  /\ Len(sortData) = 3
  /\ sortData[1].fields = BaseSortFields
  /\ sortData[2].fields = WithAlternatives(BaseSortFields, {<<"Tipologia", Str("Rosso")>>})
  /\ sortData[3].fields = WithAlternatives(BaseSortFields, {<<"Vino + Annata", Str("Amarone")>>})
  /\ sortedData = <<sortData[3], sortData[1], sortData[2]>>

\* C8: sorting the same records supplied in another order yields the same output
C8_OrderIndependentOfInputOrder ==
  sortPc = "resorted" => resortedData = sortedData

\* the five key fields of two records hold identical values
SameKeyFields(a, b) ==
  \A key \in SortKeys : Prop(a.fields, key) = Prop(b.fields, key)

\* the record given at p is before the record given at q in the output
Before(p, q) == PosOf(sortedData, sortData[p].id) < PosOf(sortedData, sortData[q].id)

\* C9 as stated: two input records with identical category, region, zone,
\* producer and name keep their input order
C9_TiedRecordsKeepInputOrder ==
  SortReturned =>
    \A p, q \in 1..Len(sortData) :
      (p < q /\ SameKeyFields(sortData[p], sortData[q])) => Before(p, q)

\* the order of the ids of two records under the collation of the comparator
IdOrder(a, b) == localeCompare(ToStr(a.id), ToStr(b.id))

\* C9 amended: two input records with identical category, region, zone,
\* producer and name keep their input order when the name is not empty, and
\* when it is empty and their ids collate equal; when the name is empty and
\* the ids collate apart, the record with the smaller id is first, whatever the
\* order in the input
C9_TiedRecordsKeepInputOrderUnlessIdsDecide ==
  SortReturned =>
    \A p, q \in 1..Len(sortData) :
      (p < q /\ SameKeyFields(sortData[p], sortData[q])) =>
        IF getField(sortData[p], "Vino + Annata") # "" \/ IdOrder(sortData[p], sortData[q]) = 0
        THEN Before(p, q)
        ELSE Before(p, q) <=> (IdOrder(sortData[p], sortData[q]) < 0)

\* three records tied on every key, their name empty, have been sorted: the two
\* whose ids collate equal are in the order of the input, and the third, given
\* last, is first on its smaller id
C9_Witness ==
  /\ sortPc = "sorted"
  /\ Len(sortData) = 3
  /\ \A p, q \in 1..3 : SameKeyFields(sortData[p], sortData[q])
  /\ getField(sortData[1], "Vino + Annata") = ""
  /\ IdOrder(sortData[1], sortData[2]) = 0
  /\ IdOrder(sortData[3], sortData[1]) < 0
  /\ sortedData = <<sortData[3], sortData[1], sortData[2]>>

\* two records tied on every key, their name not empty, have been sorted with
\* a record between them in the input
NamedTieSorted ==
  /\ sortPc = "sorted"
  /\ Len(sortData) = 3
  /\ SameKeyFields(sortData[1], sortData[3])
  /\ getField(sortData[1], "Vino + Annata") # ""
  /\ ~SameKeyFields(sortData[1], sortData[2])
  /\ Before(1, 3)

(***************************************************************************)
(* Properties of the validator and of the assembler                        *)
(***************************************************************************)
ValidationDone == valPc \in {"returned", "built"}

Occurrences(s, x) == Cardinality({p \in 1..Len(s) : s[p] = x})

IdsOf(list) == [p \in 1..Len(list) |-> list[p].id]

RequiredInputFields ==
  {"Vino + Annata", "Produttore", "Zona", "Prezzo In Carta Testo", "Tipologia", "Regione"}

OptionalInputFields ==
  {"Lista Vitigni AI", "Luogo di Produzione", "Affinamento AI", "Alcolicità AI"}

RequiredOutputFields == {"name", "producer", "zone", "price_eur", "category", "region"}

\* the field is left out of the record, or is an empty string
MissingOrEmpty(record, key) ==
  key \notin DOMAIN record.fields \/ record.fields[key] = Str("")

InvalidFieldsOf(id) ==
  UNION {{invalidRecords[p].invalidFields[q] : q \in 1..Len(invalidRecords[p].invalidFields)} :
           p \in {p \in 1..Len(invalidRecords) : invalidRecords[p].id = id}}

WarningFieldsOf(id) ==
  UNION {{warningRecords[p].warningFields[q] : q \in 1..Len(warningRecords[p].warningFields)} :
           p \in {p \in 1..Len(warningRecords) : warningRecords[p].id = id}}

\* the elements of a list, each once, in the order of their first appearance
RECURSIVE FirstSeen(_, _)
FirstSeen(s, acc) ==
  IF Len(s) = 0 THEN acc
  ELSE FirstSeen(Tail(s), IF \E p \in 1..Len(acc) : acc[p] = Head(s) THEN acc
                           ELSE Append(acc, Head(s)))

\* C1: when validation returns, every input record is in exactly one of
\* validRecords, warningRecords and invalidRecords, so the three lengths add up
\* to the length of the input.
C1_ValidationPartition ==
  ValidationDone =>
    /\ Len(validRecords) + Len(warningRecords) + Len(invalidRecords) = Len(valData)
    /\ Len(validIds) = Len(validRecords)
    /\ \A p \in 1..Len(valData) :
         Occurrences(validIds, valData[p].id)
           + Occurrences(IdsOf(warningRecords), valData[p].id)
           + Occurrences(IdsOf(invalidRecords), valData[p].id) = 1

C1_Witness ==
  /\ ValidationDone
  /\ Len(valData) = 2
  /\ Len(warningRecords) = 1
  /\ Len(invalidRecords) = 1

\* C2: a record in which a required field is missing or an empty string is not
\* in validRecords and is in invalidRecords, with the name of every such field
\* among its invalidFields.
C2_MissingRequiredFieldIsInvalid ==
  ValidationDone =>
    \A p \in 1..Len(valData) : \A key \in RequiredInputFields :
      MissingOrEmpty(valData[p], key) =>
        /\ Occurrences(validIds, valData[p].id) = 0
        /\ Occurrences(IdsOf(invalidRecords), valData[p].id) = 1
        /\ key \in InvalidFieldsOf(valData[p].id)

C2_Witness ==
  /\ ValidationDone
  /\ \E p \in 1..Len(valData) :
       /\ "Prezzo In Carta Testo" \notin DOMAIN valData[p].fields
       /\ "Vino + Annata" \notin DOMAIN valData[p].fields
       /\ InvalidFieldsOf(valData[p].id) = {"Vino + Annata", "Prezzo In Carta Testo"}
  /\ \E p \in 1..Len(valData) :
       /\ Prop(valData[p].fields, "Regione") = Str("")
       /\ InvalidFieldsOf(valData[p].id) = {"Regione"}

\* C3: every entry of validRecords has its six required output fields name,
\* producer, zone, price_eur, category and region present and non-empty, the
\* price being a number.
C3_ValidRecordsHaveRequiredFields ==
  \A p \in 1..Len(validRecords) :
    /\ \A key \in RequiredOutputFields : key \in DOMAIN validRecords[p]
    /\ \A key \in RequiredOutputFields \ {"price_eur"} : Truthy(validRecords[p][key])
    /\ validRecords[p]["price_eur"].k = "num"

\* C4: a record with no invalid field and a missing optional field is in
\* warningRecords with the names of the missing optional fields and is not in
\* validRecords; a record in validRecords has no invalid and no warning field.
C4_WarningRecordsAreNotValid ==
  ValidationDone =>
    \A p \in 1..Len(valData) :
      LET id == valData[p].id
          missing == {key \in OptionalInputFields : MissingOrEmpty(valData[p], key)}
      IN /\ (Occurrences(IdsOf(invalidRecords), id) = 0 /\ missing # {}) =>
              /\ Occurrences(IdsOf(warningRecords), id) = 1
              /\ missing \subseteq WarningFieldsOf(id)
              /\ Occurrences(validIds, id) = 0
         /\ Occurrences(validIds, id) > 0 =>
              InvalidFieldsOf(id) = {} /\ WarningFieldsOf(id) = {}

C4_Witness ==
  /\ ValidationDone
  /\ Len(validRecords) = 1
  /\ \E p \in 1..Len(warningRecords) :
       warningRecords[p].warningFields = <<"Affinamento AI">>

\* the category values of the entries of validRecords
ValidCategories == [p \in 1..Len(validRecords) |-> Prop(validRecords[p], "category")]

\* the non-empty string Tipologia values of the input records
ProcessedStringCategories ==
  SelectSeq([p \in 1..Len(valData) |-> Prop(valData[p].fields, "Tipologia")],
            LAMBDA v : v.k = "str" /\ v.s # "")

\* C5 (as stated): the categories returned are exactly the category values of
\* the records in validRecords, each once, in order of first appearance.
C5_CategoriesOfValidRecords ==
  ValidationDone => categories = FirstSeen(ValidCategories, <<>>)

\* C5 (amended): the categories returned are exactly the non-empty string
\* category values of all the records processed, whichever list a record is
\* filed in, each once, in order of first appearance.
C5_CategoriesOfProcessedRecords ==
  ValidationDone => categories = FirstSeen(ProcessedStringCategories, <<>>)

C5_Witness ==
  /\ ValidationDone
  /\ categories = <<Str("Rosso"), Str("Bianco")>>
  /\ Len(validRecords) = 1
  /\ Len(invalidRecords) = 1

\* the (section, item) places of the assembled document
ItemPlaces == {pl \in (1..Len(winesArray)) \X (1..MaxValRecords) :
                 pl[2] <= Len(winesArray[pl[1]].items)}

\* the places that hold the record: a section with the record's own category,
\* region and zone (a key the document lacks reads as undefined) and an item
\* with the record's remaining fields
PlacesOf(record) ==
  {pl \in ItemPlaces :
     /\ Prop(winesArray[pl[1]], "category") = Prop(record, "category")
     /\ Prop(winesArray[pl[1]], "region") = Prop(record, "region")
     /\ Prop(winesArray[pl[1]], "zone") = Prop(record, "zone")
     /\ winesArray[pl[1]].items[pl[2]] = withoutUndefined(itemDataOf(record))}

\* C6: in the assembled document every valid record is an item of exactly one
\* section, the one with the record's own category, region and zone, and the
\* items of all sections number validRecords.length. Valid records that are
\* equal in every field have as many places as there are such records.
C6_GroupingCompleteness ==
  valPc = "built" =>
    /\ Cardinality(ItemPlaces) = Len(validRecords)
    /\ \A p \in 1..Len(validRecords) :
         Cardinality(PlacesOf(validRecords[p])) = Occurrences(validRecords, validRecords[p])

C6_Witness ==
  /\ valPc = "built"
  /\ Len(validRecords) = 2
  /\ validRecords[1] # validRecords[2]
  /\ Len(winesArray) = 1

(***************************************************************************)
(* Properties of the publisher                                             *)
(***************************************************************************)
Segments(message) == {message[p] : p \in 1..Len(message)}

\* the attachment field of the record fetched after the upload
RefetchedAttachmentField == attachmentFieldOf(verifyRecord, pubArgs.attachmentFieldIdOrName)

IsNonEmptyList(v) == v.k = "arr" /\ Len(v.a) > 0

\* C10: the call returns a record only if the fetch made after the upload
\* shows the attachment field as a non-empty list, and returns that record;
\* when the record fetched shows the field undefined, empty or not a list, the
\* call rejects with a message that names the attachment field and the
\* filename, and nothing is returned.
C10_ReturnsOnlyWithVerifiedAttachment ==
  /\ pubPc = "returned" =>
       /\ IsObject(verifyRecord)
       /\ IsNonEmptyList(RefetchedAttachmentField)
       /\ pubResult = verifyRecord
       /\ pubError = <<>>
  /\ (IsObject(verifyRecord) /\ ~IsNonEmptyList(RefetchedAttachmentField)) =>
       /\ pubPc = "rejected"
       /\ pubResult = Undefined
       /\ pubArgs.attachmentFieldIdOrName.s \in Segments(pubError)
       /\ ToStr(finalFilename) \in Segments(pubError)

C10_Witness ==
  /\ pubPc = "rejected"
  /\ IsObject(verifyRecord)
  /\ RefetchedAttachmentField = Undefined
  /\ finalFilename = Str("carta.pdf")
  /\ "carta.pdf" \in Segments(pubError)


\* the required parameters of the call that are undefined, null or empty, and
\* `fields` when it is not an object
MissingParameters ==
  {name \in {"token", "baseId", "tableIdOrName", "attachmentFieldIdOrName", "filePath"} :
     IsBlank(pubArgs[name])}
    \cup (IF IsBlank(pubArgs.fields) \/ ~IsObject(pubArgs.fields) THEN {"fields"} ELSE {})

Called(call) == \E p \in 1..Len(pubCalls) : pubCalls[p] = call

\* the required parameters that are missing or empty, `fields` being empty
\* when it is an object without a property
MissingOrEmptyParameters ==
  MissingParameters \cup (IF pubArgs.fields = Obj(<<>>) THEN {"fields"} ELSE {})

\* C11 as stated: no record is created and no file is uploaded unless every
\* required parameter, `fields` included, is non-empty and the file read is at
\* most 5 MB; a call with a missing or empty parameter reads no file and makes
\* no remote call, and rejects with a message naming it; a file above 5 MB is
\* rejected before the record is created.
C11_NoRequestUnlessEveryParameterNonEmpty ==
  /\ (Called("createRecord") \/ Called("uploadAttachment")) =>
       MissingOrEmptyParameters = {} /\ sizeBytes <= MAX
  /\ MissingOrEmptyParameters # {} =>
       /\ pubCalls = <<>>
       /\ pubPc \in {"called", "rejected"}
       /\ pubPc = "rejected" => Segments(pubError) \cap MissingOrEmptyParameters # {}
  /\ sizeBytes > MAX =>
       /\ pubPc = "rejected"
       /\ ~Called("createRecord")
       /\ ToString(sizeBytes) \in Segments(pubError)

\* C11 amended: no record is created and no file is uploaded unless token,
\* base id, table, attachment field and file path are given and not empty,
\* `fields` is an object (an object without a property passes) and the file
\* read is at most 5 MB; a call with such a parameter missing reads no file and
\* makes no remote call, and rejects with a message naming a missing
\* parameter; a file above 5 MB is rejected before the record is created.
C11_NoRequestWithoutParametersAndSize ==
  /\ (Called("createRecord") \/ Called("uploadAttachment")) =>
       MissingParameters = {} /\ sizeBytes <= MAX
  /\ MissingParameters # {} =>
       /\ pubCalls = <<>>
       /\ pubPc \in {"called", "rejected"}
       /\ pubPc = "rejected" => Segments(pubError) \cap MissingParameters # {}
  /\ sizeBytes > MAX =>
       /\ pubPc = "rejected"
       /\ ~Called("createRecord")
       /\ ToString(sizeBytes) \in Segments(pubError)

\* a call whose fields are {} and whose file is of exactly 5 MB has created
\* its record
C11_Witness ==
  /\ pubArgs.fields = Obj(<<>>)
  /\ MissingParameters = {}
  /\ sizeBytes = MAX
  /\ Called("createRecord")

\* a file of one byte more has been read and refused, nothing else being done
OversizedFileRefused ==
  /\ pubPc = "rejected"
  /\ sizeBytes = MAX + 1
  /\ pubCalls = <<"readFile", "file:ok">>

\* the place of the first occurrence of an event in the history, 0 when absent
FirstAt(call) ==
  IF Called(call) THEN CHOOSE p \in 1..Len(pubCalls) :
                         pubCalls[p] = call /\ \A q \in 1..(p - 1) : pubCalls[q] # call
  ELSE 0

\* the fetch made before the upload, the first of the two, was rejected
FirstFetchFailed ==
  /\ Called("getRecord")
  /\ Len(pubCalls) > FirstAt("getRecord")
  /\ pubCalls[FirstAt("getRecord") + 1] = "getRecord:failed"

\* C12: the upload request is sent only after the record was created and,
\* after the wait, the fetch of that record succeeded, in that order; when
\* the creation or that fetch fails the call rejects and no upload request
\* is sent.
C12_UploadOnlyAfterCreateAndRefetch ==
  /\ Called("uploadAttachment") =>
       /\ Truthy(recordId)
       /\ 0 < FirstAt("createRecord:ok")
       /\ FirstAt("createRecord:ok") < FirstAt("sleep")
       /\ FirstAt("sleep") < FirstAt("getRecord")
       /\ FirstAt("getRecord") < FirstAt("getRecord:ok")
       /\ FirstAt("getRecord:ok") < FirstAt("uploadAttachment")
  /\ (Called("createRecord:failed") \/ FirstFetchFailed) =>
       /\ pubPc = "rejected"
       /\ ~Called("uploadAttachment")
  /\ (Called("createRecord:ok") /\ ~Truthy(recordId)) =>
       /\ pubPc = "rejected"
       /\ ~Called("uploadAttachment")

C12_Witness ==
  /\ pubPc = "rejected"
  /\ pubCalls = <<"readFile", "file:ok", "createRecord", "createRecord:ok", "sleep",
                  "getRecord", "getRecord:failed">>

(***************************************************************************)
(* Properties of the price, the zone and the producer of one record        *)
(***************************************************************************)
\* an iteration of the loop has just ended: currentRecord and invalidFields
\* are those of the record before valIndex
IterationEnded == valPc \in {"loop", "returned", "built"} /\ valIndex > 1

LastRecord == valData[valIndex - 1]

LastRawPrice == Prop(LastRecord.fields, "Prezzo In Carta Testo")

HasStringPrice == LastRawPrice.k = "str" /\ LastRawPrice.s # ""

InvalidFieldNames == {invalidFields[p] : p \in 1..Len(invalidFields)}

\* what is required of a record whose price parses to `parsed`
PriceOutcomeIs(parsed) ==
  IF parsed = NaN
    THEN /\ Prop(currentRecord, "price_eur") = Null
         /\ "price_eur" \in InvalidFieldNames
         /\ Occurrences(validIds, LastRecord.id) = 0
  ELSE /\ Prop(currentRecord, "price_eur") = parsed
       /\ "price_eur" \notin InvalidFieldNames

\* C13 (as stated): for a string price every comma is replaced by a dot,
\* every character that is not a digit or a dot is removed, the rest is parsed
\* and rounded to 2 decimals; a result that is not a number gives a null
\* price_eur, "price_eur" among the invalid fields and a record not valid.
C13_PriceParsedReplacingCommas ==
  (IterationEnded /\ HasStringPrice) =>
    PriceOutcomeIs(parseFloatToFixed2(KeepDigitsAndDots(ReplaceEveryComma(CharsOf(LastRawPrice.s)))))

\* C13 (amended): for a string price the first comma is replaced by a dot,
\* every character that is not a digit or a dot, a later comma included, is
\* removed, the rest is parsed and rounded to 2 decimals, so "12,50 €" gives
\* 12.50, "1234.5" gives 1234.5 and "1,2,3" gives 1.23; a result that is not
\* a number ("abc") gives a null price_eur, "price_eur" among the invalid
\* fields and a record not valid.
C13_PriceParsedReplacingFirstComma ==
  (IterationEnded /\ HasStringPrice) =>
    /\ PriceOutcomeIs(parseFloatToFixed2(KeepDigitsAndDots(ReplaceFirstComma(CharsOf(LastRawPrice.s)))))
    /\ LastRawPrice.s = "12,50 €" => Prop(currentRecord, "price_eur") = Dec(12, 50)
    /\ LastRawPrice.s = "1234.5" => Prop(currentRecord, "price_eur") = Dec(1234, 50)
    /\ LastRawPrice.s = "8,999" => Prop(currentRecord, "price_eur") = Dec(9, 0)
    /\ LastRawPrice.s = "1,2,3" => Prop(currentRecord, "price_eur") = Dec(1, 23)
    /\ LastRawPrice.s = "abc" => Prop(currentRecord, "price_eur") = Null

C13_Witness ==
  /\ IterationEnded
  /\ valIndex = 3
  /\ Prop(valData[1].fields, "Prezzo In Carta Testo") = Str("1,2,3")
  /\ Len(validRecords) = 1
  /\ validRecords[1]["price_eur"] = Dec(1, 23)
  /\ LastRawPrice = Str("abc")
  /\ invalidFields = <<"price_eur">>

LastZoneId == Prop(LastRecord.fields, "Zona")

\* the zone id has an entry with a name in the mapping handed to the call
ZoneHasName ==
  /\ valZoneMapping # Undefined
  /\ ToStr(LastZoneId) \in DOMAIN valZoneMapping
  /\ Truthy(valZoneMapping[ToStr(LastZoneId)].name)

\* C14: for a non-empty zone value the resolution does not throw and does not
\* return undefined; without a mapping, without an entry for the id or with an
\* entry that has no name, the zone of the record is the raw id unchanged.
C14_ZoneFallsBackToRawId ==
  (IterationEnded /\ Truthy(LastZoneId)) =>
    /\ "zone" \in DOMAIN currentRecord
    /\ "Zona" \notin InvalidFieldNames
    /\ currentRecord["zone"] # ZoneIdNotFound
    /\ currentRecord["zone"] # Undefined
    /\ ZoneHasName => currentRecord["zone"] = valZoneMapping[ToStr(LastZoneId)].name
    /\ ~ZoneHasName => currentRecord["zone"] = LastZoneId

C14_Witness ==
  /\ IterationEnded
  /\ valIndex = 3
  /\ valZoneMapping = ValZoneTable
  /\ Prop(valData[1].fields, "Zona") = Arr(<<Str("recZ9")>>)
  /\ Len(validRecords) = 2
  /\ validRecords[1]["zone"] = Arr(<<Str("recZ9")>>)
  /\ LastZoneId = Arr(<<Str("recZ4")>>)
  /\ validRecords[2]["zone"] = Arr(<<Str("recZ4")>>)

\* the lookup of the producer of the record at p is rejected
LookupFails(p) ==
  /\ Truthy(Prop(valData[p].fields, "Produttore"))
  /\ ~getEnotecaDataById(valData[p].fields["Produttore"]).ok

InvalidEntriesOf(id) ==
  {q \in 1..Len(invalidRecords) : invalidRecords[q].id = id}

\* the record at p is in one of the three lists
Classified(p) ==
  \/ Occurrences(validIds, valData[p].id) > 0
  \/ \E q \in 1..Len(warningRecords) : warningRecords[q].id = valData[p].id
  \/ InvalidEntriesOf(valData[p].id) # {}

\* C15: validation of cleaned records never throws; a record whose producer
\* lookup fails is listed invalid with "Produttore" among its invalidFields,
\* the records after it are still processed, and the result returned
\* classifies every record.
C15_ValidationNeverThrows ==
  /\ valPc # "thrown"
  /\ \A p \in 1..Len(valData) :
       /\ (p < valIndex) => Classified(p)
       /\ (p < valIndex /\ LookupFails(p)) =>
            /\ InvalidEntriesOf(valData[p].id) # {}
            /\ \A q \in InvalidEntriesOf(valData[p].id) :
                 \E r \in 1..Len(invalidRecords[q].invalidFields) :
                   invalidRecords[q].invalidFields[r] = "Produttore"
  /\ valPc \in {"returned", "built"} =>
       /\ valIndex = Len(valData) + 1
       /\ Len(validRecords) + Len(warningRecords) + Len(invalidRecords) = Len(valData)

C15_Witness ==
  /\ valPc = "returned"
  /\ Len(valData) = 2
  /\ LookupFails(1)
  /\ invalidRecords = <<[id |-> valData[1].id, invalidFields |-> <<"Produttore">>]>>
  /\ validIds = <<valData[2].id>>

(***************************************************************************)
(* Properties of the cleaner                                               *)
(***************************************************************************)
RawRecords == recordsOf(cleanData)

CleanReturned == cleanPc \in {"returned", "reapplied", "recleaned"}

EmptyFieldsRecord(raw, out) ==
  /\ out.k = "obj"
  /\ DOMAIN out.p = {"id", "createdTime", "fields"}
  /\ out.p["fields"] = Obj(<<>>)

\* an entry that is not an object, or whose fields is missing or not an object
Malformed(raw) ==
  \/ raw.k # "obj"
  \/ ~IsObject(Prop(raw.p, "fields"))

\* C16: the cleaner never throws; without a records array the result is the
\* empty list; every entry of records, a malformed one included, yields one
\* output record (with empty fields when malformed), so the output is as long
\* as records.
C16_CleanerNeverThrows ==
  /\ cleanPc # "thrown"
  /\ CleanReturned =>
       /\ Len(cleanedRecords) = Len(RawRecords)
       /\ OptionalMember(cleanData, "records").k # "arr" => cleanedRecords = <<>>
       /\ \A p \in 1..Len(RawRecords) :
            Malformed(RawRecords[p]) => EmptyFieldsRecord(RawRecords[p], cleanedRecords[p])

\* C17: every record returned has the id and the createdTime of the raw
\* record at its position; its fields hold only names of the list of 13 kept
\* fields, each with the value the raw record has under that name.
C17_CleanedFieldsWithinKeepFields ==
  CleanReturned =>
    /\ Cardinality(KeepFieldNames) = 13
    /\ \A p \in 1..Len(cleanedRecords) :
         LET raw == RawRecords[p]
             out == cleanedRecords[p].p
         IN /\ out["id"] = OptionalMember(raw, "id")
            /\ out["createdTime"] = OptionalMember(raw, "createdTime")
            /\ out["fields"].k = "obj"
            /\ DOMAIN out["fields"].p \subseteq KeepFieldNames
            /\ \A key \in DOMAIN out["fields"].p :
                 out["fields"].p[key] = Member(Member(raw, "fields"), key)

C17_Witness ==
  /\ cleanPc = "returned"
  /\ Len(cleanedRecords) = 2
  /\ Member(RawRecords[1], "id") = Str("rec2")
  /\ DOMAIN RawRecords[1].p["fields"].p = KeepFieldNames \cup DOMAIN OtherFields
  /\ DOMAIN cleanedRecords[1].p["fields"].p = KeepFieldNames
  /\ Member(RawRecords[2], "id") = Str("rec1")
  /\ DOMAIN cleanedRecords[2].p["fields"].p = {"Vino + Annata", "Zona", "Prezzo In Carta Testo"}

\* C18 (as stated): the cleaner applied to its own result returns what the
\* first cleaning returned, clean(clean(x)) = clean(x).
C18_CleanOfCleanIsClean ==
  cleanPc \in {"reapplied", "recleaned"} => cleanedTwice = cleanedRecords

\* C18 (amended): the cleaner applied to a response whose records are the
\* result of cleaning x returns, record by record, what cleaning x returned;
\* applied to the returned array itself, which has no records, it returns
\* the empty list.
C18_CleanOfCleanedRecordsIsClean ==
  /\ cleanPc = "recleaned" => recleanedRecords = cleanedRecords
  /\ cleanPc \in {"reapplied", "recleaned"} => cleanedTwice = <<>>

C18_Witness ==
  /\ cleanPc = "recleaned"
  /\ Len(cleanedRecords) = 2
  /\ DOMAIN cleanedRecords[1].p["fields"].p = {"Vino + Annata", "Zona", "Prezzo In Carta Testo"}
  /\ cleanedRecords[2].p["id"] = Undefined
  /\ DOMAIN cleanedRecords[2].p["fields"].p = {"Regione"}
  /\ recleanedRecords = cleanedRecords
  /\ cleanedTwice = <<>>

(***************************************************************************)
(* Properties of the zone mapping                                          *)
(***************************************************************************)
ZoneRecords == recordsOf(zonesResponse.data)

\* the ids of the fetched records that have one
FetchedZoneIds ==
  {OptionalMember(ZoneRecords[p], "id") : p \in 1..Len(ZoneRecords)}
    \ {Undefined, Null, Str("")}

\* C19: the mapping returned has, for each fetched record with an id, an
\* entry under exactly that id that carries that id; it has no other key, so
\* a record without an id is under none; name, region, country and priority
\* of every descriptor are a value or null, never undefined.
C19_ZoneMappingKeyedById ==
  zonePc = "returned" =>
    /\ \A id \in FetchedZoneIds :
         /\ id.s \in DOMAIN zoneMapping
         /\ zoneMapping[id.s].id = id
    /\ DOMAIN zoneMapping = {id.s : id \in FetchedZoneIds}
    /\ \A key \in DOMAIN zoneMapping :
         /\ zoneMapping[key].name # Undefined
         /\ zoneMapping[key].region # Undefined
         /\ zoneMapping[key].country # Undefined
         /\ zoneMapping[key].priority # Undefined

C19_Witness ==
  /\ zonePc = "returned"
  /\ Len(ZoneRecords) = 2
  /\ OptionalMember(ZoneRecords[1], "id") = Undefined
  /\ Member(fieldsOf(ZoneRecords[1]), "Nome Zona") = Str("Soave")
  /\ DOMAIN zoneMapping = {"recZ2"}
  /\ zoneMapping["recZ2"] = [id |-> Str("recZ2"), name |-> Str("Bolgheri"), region |-> Null,
                              country |-> Null, priority |-> Num(1)]

(***************************************************************************)
(* Properties of a generation run                                          *)
(***************************************************************************)
\* the run has settled
GenSettled == genPc \in {"returned", "rejected"}

\* no run gets to write the document: generateWineListYamlString resolves to
\* an object, the check of the data in writeFileAtomicSafe refuses it, and the
\* run rejects before any step that renders or publishes
RunsEndAtTheWrite ==
  /\ genPc \notin {"write", "returned"}
  /\ yamlString = Undefined \/ yamlString.k = "obj"
  /\ GenSettled => genError # <<>>

\* a run rejected by the check of the data whose temporary file is still there
TempLeftBehind ==
  /\ genPc = "rejected"
  /\ genError = <<"data must be string, Buffer, or Uint8Array.">>
  /\ genTemp = Str("")

(***************************************************************************)
(* Properties of the generation of the document                            *)
(***************************************************************************)
PipeValid == pipeResult.validRecords

\* the place in validRecords of the first record with these keys
FirstWith(keys) ==
  LET hits == {p \in 1..Len(PipeValid) : \A k \in DOMAIN keys : Prop(PipeValid[p], k) = keys[k]}
  IN IF hits = {} THEN 0 ELSE CHOOSE p \in hits : \A q \in hits : p <= q

\* the category, region and zone of a section of the document; a key the
\* document lacks reads as undefined
KeysOf(sec) ==
  [category |-> Prop(sec, "category"), region |-> Prop(sec, "region"),
   zone |-> Prop(sec, "zone")]

FirstCategory(sec) == FirstWith([category |-> KeysOf(sec).category])

FirstRegion(sec) == FirstWith([category |-> KeysOf(sec).category, region |-> KeysOf(sec).region])

FirstZone(sec) == FirstWith(KeysOf(sec))

\* the sections are in first-seen order of category, region within the
\* category, zone within the region
SectionsInFirstSeenOrder ==
  \A i, j \in 1..Len(pipeWines) :
    i < j =>
      LET a == KeysOf(pipeWines[i])
          b == KeysOf(pipeWines[j])
      IN IF a.category # b.category THEN FirstCategory(a) < FirstCategory(b)
         ELSE IF a.region # b.region THEN FirstRegion(a) < FirstRegion(b)
         ELSE IF a.zone # b.zone THEN FirstZone(a) < FirstZone(b)
         ELSE FirstZone(a) <= FirstZone(b)

\* the items read section by section, each with the keys of its section
ItemsInSectionOrder ==
  Flatten([i \in 1..Len(pipeWines) |->
    [p \in 1..Len(pipeWines[i].items) |->
       withoutUndefined(pipeWines[i].items[p] @@ KeysOf(pipeWines[i]))]])

\* C21: the sections are emitted in first-seen order of category, region and
\* zone, and, the records being fed in the order of the sorter, the items read
\* section by section are the valid records in that sorted order.
C21_SectionsKeepSortedOrder ==
  pipePc = "returned" =>
    /\ SectionsInFirstSeenOrder
    /\ ItemsInSectionOrder = [p \in 1..Len(PipeValid) |-> withoutUndefined(PipeValid[p])]

(***************************************************************************)
(* Properties of the zone key of the sorter, on the order the generation   *)
(* of the document sorts its records in                                    *)
(***************************************************************************)
PipeSortDone == pipePc \in {"validating", "returned"}

\* the descriptor the mapping of the run resolves the zone of a record to
PipeZoneOf(r) == ZoneOf(pipeZoneMapping, getZoneId(r))

SameTipologiaAndRegione(a, b) == tipologiaCompare(a, b) = 0 /\ regioneCompare(a, b) = 0

BothHavePriority(a, b) == HasPriority(PipeZoneOf(a)) /\ HasPriority(PipeZoneOf(b))

\* the priority of the zone of a record, in hundredths
PriorityOf(r) ==
  LET priority == PipeZoneOf(r).p["priority"]
  IN priority.n * 100 + priority.f

\* the priorities of the two zones decide: the smaller one first, and on
\* equal priorities the names of the zones in alphabetical order
InPriorityOrder(a, b) ==
  \/ PriorityOf(a) < PriorityOf(b)
  \/ /\ PriorityOf(a) = PriorityOf(b)
     /\ localeCompare(ToStr(ZoneNameOrEmpty(PipeZoneOf(a))),
                      ToStr(ZoneNameOrEmpty(PipeZoneOf(b)))) <= 0

\* C22: with a zone mapping, of two records with equal Tipologia and Regione
\* whose zones both have a non-null numeric priority, the one with the smaller
\* priority is sorted first; on equal priorities the zone name decides.
C22_SmallerPriorityFirst ==
  PipeSortDone =>
    \A i, j \in 1..Len(pipeSorted) :
      (i < j /\ SameTipologiaAndRegione(pipeSorted[i], pipeSorted[j])
             /\ BothHavePriority(pipeSorted[i], pipeSorted[j]))
        => InPriorityOrder(pipeSorted[i], pipeSorted[j])

\* the same, for the zones whose priority is not 0
NonZeroPrioritiesAscend ==
  PipeSortDone =>
    \A i, j \in 1..Len(pipeSorted) :
      (i < j /\ SameTipologiaAndRegione(pipeSorted[i], pipeSorted[j])
             /\ BothHavePriority(pipeSorted[i], pipeSorted[j])
             /\ PriorityOf(pipeSorted[i]) # 0 /\ PriorityOf(pipeSorted[j]) # 0)
        => InPriorityOrder(pipeSorted[i], pipeSorted[j])

NeitherHasPriority(a, b) == ~HasPriority(PipeZoneOf(a)) /\ ~HasPriority(PipeZoneOf(b))

\* the sorter threw in the run: the zones were fetched, and the run was
\* rejected with nothing sorted
PipeSortThrew ==
  pipePc = "rejected" /\ pipeCleaned # <<>> /\ pipeZones.ok /\ pipeSorted = <<>>

\* C23: with a zone mapping, of two records with equal Tipologia and Regione
\* a record whose zone has a priority is sorted before a record whose zone has
\* none (unmapped zone, missing zone, null priority); two records whose zones
\* have no priority are in the order of their raw Zona strings.  The sorter
\* returns no order only when it throws on two records whose zones both have a
\* priority.
C23_PriorityBeforeNoPriority ==
  /\ PipeSortDone =>
       \A i, j \in 1..Len(pipeSorted) :
         (i < j /\ SameTipologiaAndRegione(pipeSorted[i], pipeSorted[j])) =>
           /\ ~(~HasPriority(PipeZoneOf(pipeSorted[i])) /\ HasPriority(PipeZoneOf(pipeSorted[j])))
           /\ NeitherHasPriority(pipeSorted[i], pipeSorted[j])
                => zonaCompare(pipeSorted[i], pipeSorted[j]) <= 0
  /\ PipeSortThrew =>
       \E i, j \in 1..Len(pipeCleaned) :
         LET a == recordOf(pipeCleaned[i])
             b == recordOf(pipeCleaned[j])
         IN /\ i # j
            /\ ThrowsOn(a, b, pipeZoneMapping)
            /\ BothHavePriority(a, b)

\* a sorted run in which a zone with a priority was given after a zone with a
\* null priority, an unmapped zone and a missing zone are in it too
C23_Witness ==
  /\ PipeSortDone
  /\ Len(pipeSorted) = 3
  /\ \A i, j \in 1..3 : SameTipologiaAndRegione(pipeSorted[i], pipeSorted[j])
  /\ HasPriority(PipeZoneOf(pipeSorted[1]))
  /\ pipeSorted[1].id = Str(RecIds[3])
  /\ NeitherHasPriority(pipeSorted[2], pipeSorted[3])
  /\ zonaCompare(pipeSorted[2], pipeSorted[3]) < 0
  /\ pipeSorted[2].id = Str(RecIds[2])
  /\ PipeZoneOf(pipeSorted[3]) \in {Null, Undefined} \/ PipeZoneOf(pipeSorted[2]) \in {Null, Undefined}

(***************************************************************************)
(* Properties of the sequence of operations of the publisher               *)
(***************************************************************************)
\* the operations of a complete run on the record store, in order
PublishSequence ==
  <<"createRecord", "sleep", "getRecord", "uploadAttachment", "sleep", "getRecord">>

IsRecordStoreOp(c) == c \in {"createRecord", "sleep", "getRecord", "uploadAttachment", "deleteRecord"}

\* the operations on the record store the run has issued so far
RecordStoreOps == SelectSeq(pubCalls, IsRecordStoreOp)

FailedMarks == {"file:failed", "createRecord:failed", "getRecord:failed", "uploadAttachment:failed"}

\* C24: the operations a run of publish issues on the record store are a
\* prefix of create record, wait, fetch record, upload attachment, wait, fetch
\* record: each at most once, nothing after a failed step (no retry), one
\* sleep and one fetch per re-check, and no delete of the created record.
C24_RemoteOperationsArePrefix ==
  /\ Len(RecordStoreOps) <= Len(PublishSequence)
  /\ RecordStoreOps = SubSeq(PublishSequence, 1, Len(RecordStoreOps))
  /\ \A i \in 1..Len(pubCalls) : pubCalls[i] \in FailedMarks => i = Len(pubCalls)

\* the upload failed after the record was created and fetched: the run is
\* rejected with the record in place, four operations issued
C24_Witness ==
  /\ pubPc = "rejected"
  /\ Truthy(recordId)
  /\ pubCalls[Len(pubCalls)] = "uploadAttachment:failed"
  /\ RecordStoreOps = SubSeq(PublishSequence, 1, 4)

(***************************************************************************)
(* Properties of the paginated fetch                                       *)
(***************************************************************************)
\* the requests so far: one at a time, the first without an offset, each
\* later one with the offset of the page before it, none after a page
\* without an offset
RequestsFollowCursors ==
  /\ Len(fetchRequests) <= Len(fetchReplies) + 1
  /\ Len(fetchRequests) >= 1 => "offset" \notin DOMAIN fetchRequests[1]
  /\ \A i \in 1..Len(fetchReplies) :
       IF Truthy(Prop(fetchReplies[i].p, "offset"))
         THEN /\ Len(fetchRequests) > i
              /\ Prop(fetchRequests[i + 1], "offset") = fetchReplies[i].p["offset"]
       ELSE Len(fetchRequests) = i

\* the records of the pages received, in the order of the pages
RecordsOfReplies == Flatten([i \in 1..Len(fetchReplies) |-> pageRecords(fetchReplies[i])])

ReturnsAllPages ==
  fetchPc = "returned" =>
    /\ ~Truthy(Prop(fetchReplies[Len(fetchReplies)].p, "offset"))
    /\ fetchResult = Obj(("records" :> Arr(RecordsOfReplies)))

\* following the cursors from the first page, the source comes to a page
\* without an offset (or to a failure) within n pages
RECURSIVE RunsOutFrom(_, _)
RunsOutFrom(cursor, n) ==
  IF n = 0 THEN FALSE
  ELSE \/ ~fetchSource[cursor].ok
       \/ ~Truthy(fetchSource[cursor].offset)
       \/ RunsOutFrom(ToStr(fetchSource[cursor].offset), n - 1)

SourceRunsOut == RunsOutFrom("", Cardinality(Cursors))

\* C25: the pages are requested one after another, the first without a
\* cursor and each later one with the offset of the page before; the fetch
\* stops at the first page without an offset and returns the records of all
\* pages in page order; it terminates whenever the source comes to a page
\* without an offset.
C25_SequentialPagination ==
  /\ [](RequestsFollowCursors /\ ReturnsAllPages)
  /\ (fetchPc = "requesting" /\ SourceRunsOut) ~> (fetchPc \in {"returned", "rejected"})

\* a fetch of three pages has returned their records
C25_Witness ==
  /\ fetchPc = "returned"
  /\ Len(fetchRequests) = 3
  /\ fetchResult = Obj(("records" :> Arr(<<Str("rec1"), Str("rec2"), Str("rec4"), Str("rec3")>>)))

(***************************************************************************)
(* Properties of the scheduling of the producer lookups                    *)
(***************************************************************************)
\* C26: the producer lookups of the validator are serialized: at most one is
\* in flight, it is the lookup of the record the loop is at, and every record
\* before it has been processed to its end (lookup included) and filed.
C26_ProducerLookupsSerialized ==
  /\ Cardinality(lookupsInFlight) <= 1
  /\ \A i \in lookupsInFlight :
       /\ i = valIndex
       /\ valPc = "lookup"
       /\ \A p \in 1..(i - 1) : Classified(p)
       /\ Len(validRecords) + Len(warningRecords) + Len(invalidRecords) = i - 1

\* the lookup of the second record is in flight, the first record, which had
\* a lookup of its own, is filed
C26_Witness ==
  /\ lookupsInFlight = {2}
  /\ Truthy(Prop(valData[1].fields, "Produttore"))
  /\ Classified(1)

(***************************************************************************)
(* Properties of the atomic write                                          *)
(***************************************************************************)
WriteSettled == wfPc \in {"returned", "rejected"}

\* C27: writeFileAtomicSafe called with overwrite = false on a target that
\* exists rejects, and the content of the target is what it was.
C27_NoOverwriteRejectsOnExistingTarget ==
  (WriteSettled /\ ~overwriteOf(wfArgs) /\ targetBefore # Undefined) =>
    /\ wfPc = "rejected"
    /\ fsTarget = targetBefore

\* C28: writeFileAtomicSafe is all-or-nothing: when it rejects, the target
\* has the content it had before the call and the temporary file is gone.
C28_RejectedWriteLeavesTarget ==
  wfPc = "rejected" =>
    /\ fsTarget = targetBefore
    /\ fsTemp = Undefined

\* the part of C28 on the content of the target alone
RejectedWriteKeepsContent == wfPc = "rejected" => fsTarget = targetBefore

\* a rejected write keeps the content of the target unless the sync of the
\* directory is what failed
RejectedBeforeRenameKeepsContent ==
  (wfPc = "rejected" /\ wfError \notin {DirSyncRefused("EISDIR"), DirSyncRefused("EIO")})
    => fsTarget = targetBefore

(***************************************************************************)
(* Properties of the HTTP entry                                            *)
(***************************************************************************)
GenerationStarted == generationCall # Undefined

\* C29: the venue identifier of a validated request is the venue the
\* generation run works for: startGeneration looks up, generates and
\* publishes for the requested enotecaId, never for a default venue.
C29_GenerationUsesRequestedVenue ==
  GenerationStarted =>
    /\ generationEnoteca = reqBody["enotecaId"]
    /\ generationEnoteca # Str("Porgi l'Altra Pancia")

\* the requested identifier does reach startGeneration, under a name it does
\* not read
RequestedVenueIsPassed ==
  GenerationStarted => generationCall["enotecaId"] = reqBody["enotecaId"]

(***************************************************************************)
(* Properties of the grouping of the document                              *)
(***************************************************************************)
SameSectionValues(a, b) == KeysOf(a) = KeysOf(b)

\* C30: no two sections of the assembled document have the same category,
\* region and zone: the valid records that share the three values are the
\* items of one section.
C30_SectionsHaveDistinctKeys ==
  pipePc = "returned" =>
    \A i, j \in 1..Len(pipeWines) :
      SameSectionValues(pipeWines[i], pipeWines[j]) => i = j

\* the same, for the documents all of whose zones were resolved to a name
SectionsOfNamedZonesAreDistinct ==
  (pipePc = "returned" /\ \A i \in 1..Len(pipeWines) : KeysOf(pipeWines[i]).zone.k = "str") =>
    \A i, j \in 1..Len(pipeWines) :
      SameSectionValues(pipeWines[i], pipeWines[j]) => i = j

====
